---- MODULE Spec2Model ----
(***************************************************************************)
(* MyWorkView: a monday.com board-data viewer.                             *)
(*                                                                         *)
(* Several state machines share this module and its initial state.         *)
(*   ExecSpec      one upstream call at a time, through the call site's    *)
(*                 retry layers: App.jsx retry() around useMondayAPI       *)
(*                 queryMonday() around monday.api(), or fewer layers      *)
(*                 where the call site uses fewer.                         *)
(*   Spec          the App component: selection, fetchBoardData            *)
(*                 invocations in flight, the polling timer, and           *)
(*                 TaskTable's edit mutations.                             *)
(*   SettingsSpec  the settings kept in monday.storage: loadSettings and   *)
(*                 the save effect.                                        *)
(*   WritesSpec    settings writes in flight at the same time.             *)
(*   FilterSpec    TaskTable's filters and the rows it derives from them.  *)
(*   SortSpec      TaskTable's sort and the rows it derives from it.       *)
(*   UsersSpec     TaskTable's user cache and its prefetch effect.         *)
(*   MountSpec     TaskTable inside App: when its state is discarded.      *)
(*   EditSpec      TaskTable's item name editor.                           *)
(***************************************************************************)
EXTENDS Integers, Sequences, FiniteSets, TLC

VARIABLES
    \* ---- one upstream call (ExecSpec)
    site,        \* the call site of the call in progress, or "none"
    ePc,         \* "idle", "attempt", "backoffQ", "backoffR", "resolved", "rejected"
    inner,       \* queryMonday's `retries` parameter of the current frame
    outer,       \* retry()'s `retries` parameter of the current frame
    attempts,    \* history: monday.api invocations made by this call
    lastErr,     \* history: what the last finished attempt reported
    prevErr,     \* history: what the attempt before it reported (it was retried)
    uniform,     \* history: every finished attempt of this call reported the same error
    thrown,      \* the error object the caller's catch receives
    exhausted,   \* history: the rejection was a retryable error meeting retries = 0
    result,      \* what the caller takes as the result: "none", "data", "empty"
    qDelay,      \* queryMonday's `delay` parameter of the current frame, ms
    rDelay,      \* retry()'s `delay` parameter of the current frame, ms
    wait,        \* the setTimeout a retry is waiting for, ms; 0 when none
    \* ---- the App component (Spec)
    selectedBoardIds,   \* useState([]): sequence of board ids
    selectedColumnIds,  \* useState([]): sequence of column ids
    allBoardsData,      \* useState({}): board id -> [name, columns]
    boardItems,         \* useState([]): the displayed item list
    isAppLoading,       \* useState(true)
    isLoadingColumns,   \* useState(false)
    isLoadingItems,     \* useState(false)
    isPolling,          \* useState(false)
    columnsError,       \* useState(null): "null" or "set"
    itemsError,         \* useState(null): "null" or "set"
    refreshes,          \* fetchBoardData invocations in flight, oldest first
    edit,               \* TaskTable's mutation in flight, or NoEdit
    srvVer,             \* upstream: version of the boards' data
    listed,             \* upstream: boards GET_BOARD_COLUMNS_QUERY returns
    event,              \* history: what the step just taken did
    fetches,            \* history: fetchBoardData invocations that reached the network
    \* ---- settings in monday.storage (SettingsSpec)
    isSidebarOpen,      \* useState(false)
    appError,           \* useState(null): "null" or "set"
    sPc,                \* loadSettings: "unmounted", "getItem", "removeItem",
                        \* "removeItemAfterError", "done"
    stored,             \* storage: the value under the key 'appSettings'
    pending,            \* storage: setItem calls issued and not yet applied
    removeItemApi,      \* storage: "resolves", "rejects" or "unavailable"
    loadRead,           \* history: the kind of value this mount's getItem returned
    lastWrite,          \* history: the setItem value the step just taken issued
    mounts,             \* history: times the app was mounted
    sorting,            \* TaskTable useState({}): column id -> sort state
    activeFilters,      \* TaskTable useState({}): column id -> selected values
    \* ---- the table's view (ViewSpec)
    tableItems,         \* TaskTable's boardItems prop: ids of Catalogue items, in order
    columnIds,          \* TaskTable's columnIds prop: the displayed column ids
    currentUserId,      \* useState(null): "null" or the user id of the host's context
    filteredAndSortedBoardItems,  \* useMemo: the rows the table renders
    \* ---- the table's user cache (UsersSpec)
    cachedUsers,        \* useState({}): user id -> "user" or "Unknown"
    userCalls,          \* GET_USER_DETAILS_QUERY calls in flight: their user ids
    userCallsIssued,    \* history: user id -> calls issued for it so far
    \* ---- the table's item name editor (EditSpec)
    editingItemId,      \* useState(null): "null" or the id of the item being renamed
    editedItemName,     \* useState(''): the text of the name input
    renameCalls,        \* UPDATE_ITEM_NAME_QUERY mutations in flight
    renamesSent         \* history: mutations sent since the edit began

execVars == <<site, ePc, inner, outer, attempts, lastErr, prevErr, uniform,
              thrown, exhausted, result, qDelay, rDelay, wait>>

appVars == <<selectedBoardIds, selectedColumnIds, allBoardsData, boardItems,
             isAppLoading, isLoadingColumns, isLoadingItems, isPolling,
             columnsError, itemsError, refreshes, edit, srvVer, listed,
             event, fetches>>

settingsVars == <<isSidebarOpen, appError, sPc, stored, pending, removeItemApi,
                  loadRead, lastWrite, mounts>>

tableVars == <<sorting, activeFilters>>

viewVars == <<tableItems, columnIds, currentUserId, filteredAndSortedBoardItems>>

userVars == <<cachedUsers, userCalls, userCallsIssued>>

editVars == <<editingItemId, editedItemName, renameCalls, renamesSent>>

vars == <<execVars, appVars, settingsVars, tableVars, viewVars, userVars, editVars>>

----------------------------------------------------------------------------
(* Upstream errors.                                                        *)

\* Substrings the code looks for in error.message.
RateLimitPassed == "Rate limit passed"
RateLimitExceeded == "Rate limit exceeded"
ConcurrencyLimit == "Concurrency limit exceeded"
GraphqlValidation == "Graphql validation errors"
PermissionDenied == "Permission denied"

Phrases == {RateLimitPassed, RateLimitExceeded, ConcurrencyLimit,
            GraphqlValidation, PermissionDenied}

\* Largest number of entries in a response's `errors` array.
MaxErrList == 1

\* A message is the set of phrases it is made of; joining the messages of an
\* error list is their union, and String.prototype.includes is membership.
Includes(msg, phrase) == phrase \in msg

JoinMessages(list) == UNION list

\* `errors` arrays of an HTTP-success response: nonempty lists of messages.
ErrorLists == {l \in SUBSET {{p} : p \in Phrases} :
                 Cardinality(l) >= 1 /\ Cardinality(l) <= MaxErrList}

\* What error.response carries on a rejected monday.api promise.
Responses == {"none", "429", "FIELD_LIMIT_EXCEEDED"}

NoErr == [chan |-> "none", list |-> {}, msg |-> {}, resp |-> "none", tag |-> "none"]

\* chan "errors": monday.api resolved with response.errors = list.
\* chan "thrown": monday.api rejected with an Error (message, response).
\* No error object upstream produces carries a tag.
UpstreamErrors ==
    {[chan |-> "errors", list |-> l, msg |-> {}, resp |-> "none", tag |-> "none"] :
        l \in ErrorLists}
    \cup
    {[chan |-> "thrown", list |-> {}, msg |-> {p}, resp |-> r, tag |-> "none"] :
        p \in Phrases, r \in Responses}

----------------------------------------------------------------------------
(* Call sites and the layers each goes through.                            *)

RetrySites == {"columns", "items", "boards"}
QuerySites == {"user", "rename", "columnValue"}
RawSites == {"sidebarBoards"}
Sites == RetrySites \cup QuerySites \cup RawSites

\* queryMonday(query, variables = {}, retries = 3, delay = 500)
QueryRetries == 3
\* retry(fn, retries = 5, delay = 2000, factor = 2)
RetryRetries == 5
QueryDelay == 500
RetryDelay == 2000
RetryFactor == 2

\* A retry that waits as long as the one before it.
NextDelayConstant(delay, factor) == delay

\* The delay handed to the next frame: delay * 2 (useMondayAPI.jsx lines 21,
\* 36), delay * factor (App.jsx line 39).
NextDelay(delay, factor) == delay * factor

UsesQueryMonday(s) == s \in RetrySites \cup QuerySites
UsesRetry(s) == s \in RetrySites

\* queryMonday line 15: response.errors.some(err => includes(passed) || includes(exceeded))
RateLimitInList(list) ==
    \E m \in list : Includes(m, RateLimitPassed) \/ Includes(m, RateLimitExceeded)

\* queryMonday line 24: new Error(response.errors.map(e => e.message).join('; '))
NewErrorFromList(list) ==
    [chan |-> "thrown", list |-> {}, msg |-> JoinMessages(list), resp |-> "none",
     tag |-> "none"]

\* queryMonday line 33: the catch block's retry condition
QueryCatchRetries(err, retries) ==
    Includes(err.msg, RateLimitPassed) /\ retries > 0

\* queryMonday, one frame, after monday.api reported e:
\* "retry" (wait `delay`, recurse with retries - 1) or "throw" with .err
QueryMondayOnError(e, retries) ==
    IF e.chan = "errors"
    THEN IF RateLimitInList(e.list) /\ retries > 0
         THEN [do |-> "retry", err |-> NoErr]
         ELSE \* the throw of line 24 is inside the try: the catch sees it
              LET err == NewErrorFromList(e.list)
              IN  IF QueryCatchRetries(err, retries)
                  THEN [do |-> "retry", err |-> NoErr]
                  ELSE [do |-> "throw", err |-> err]
    ELSE IF QueryCatchRetries(e, retries)
         THEN [do |-> "retry", err |-> NoErr]
         ELSE [do |-> "throw", err |-> e]

\* retry() lines 30-34: the four conditions
RetryIsTransient(err) ==
    \/ Includes(err.msg, ConcurrencyLimit)
    \/ Includes(err.msg, GraphqlValidation)
    \/ err.resp = "429"
    \/ err.resp = "FIELD_LIMIT_EXCEEDED"

\* A retry() that tags the error it gives up on.
RetryOnErrorTagging(err, retries) ==
    IF retries > 0 /\ RetryIsTransient(err)
    THEN [do |-> "retry", err |-> NoErr]
    ELSE IF RetryIsTransient(err)
         THEN [do |-> "throw", err |-> [err EXCEPT !.tag = "ExhaustedRetries"]]
         ELSE [do |-> "throw", err |-> err]

\* retry() line 36
RetryOnError(err, retries) ==
    IF retries > 0 /\ RetryIsTransient(err)
    THEN [do |-> "retry", err |-> NoErr]
    ELSE [do |-> "throw", err |-> err]

\* history: whether a throw of queryMonday was a retryable error with no budget
QueryBudgetSpent(e, retries) ==
    /\ retries = 0
    /\ \/ e.chan = "errors" /\ RateLimitInList(e.list)
       \/ e.chan = "thrown" /\ Includes(e.msg, RateLimitPassed)

----------------------------------------------------------------------------
(* ExecSpec: one call.                                                     *)

\* A call site issues its call: the first monday.api of the call is in flight.
StartCall(s) ==
    /\ ePc = "idle"
    /\ site' = s
    /\ ePc' = "attempt"
    /\ inner' = IF UsesQueryMonday(s) THEN QueryRetries ELSE 0
    /\ outer' = IF UsesRetry(s) THEN RetryRetries ELSE 0
    /\ attempts' = 1
    /\ qDelay' = IF UsesQueryMonday(s) THEN QueryDelay ELSE 0
    /\ rDelay' = IF UsesRetry(s) THEN RetryDelay ELSE 0
    /\ UNCHANGED <<lastErr, prevErr, uniform, thrown, exhausted, result, wait>>
    /\ UNCHANGED <<appVars, settingsVars, tableVars, viewVars, userVars, editVars>>

\* monday.api resolved without errors: every layer returns response.data.
AttemptSucceeds ==
    /\ ePc = "attempt"
    /\ ePc' = "resolved"
    /\ result' = "data"
    /\ UNCHANGED <<site, inner, outer, attempts, lastErr, prevErr, uniform,
                   thrown, exhausted, qDelay, rDelay, wait>>
    /\ UNCHANGED <<appVars, settingsVars, tableVars, viewVars, userVars, editVars>>

\* The bookkeeping every failed attempt does to the history variables.
NoteError(e) ==
    /\ prevErr' = lastErr
    /\ lastErr' = e
    /\ uniform' = (uniform /\ (attempts = 1 \/ lastErr = e))

\* monday.api reported e at a site that calls queryMonday (wrapped or not).
QueryAttemptFails(e) ==
    /\ ePc = "attempt"
    /\ UsesQueryMonday(site)
    /\ NoteError(e)
    /\ LET q == QueryMondayOnError(e, inner)
       IN  IF q.do = "retry"
           THEN /\ ePc' = "backoffQ"
                /\ inner' = inner - 1
                /\ wait' = qDelay
                /\ qDelay' = NextDelay(qDelay, 2)
                /\ UNCHANGED <<outer, thrown, exhausted, rDelay>>
           ELSE IF UsesRetry(site)
           THEN LET r == RetryOnError(q.err, outer)
                IN  IF r.do = "retry"
                    THEN /\ ePc' = "backoffR"
                         /\ outer' = outer - 1
                         /\ inner' = QueryRetries
                         /\ wait' = rDelay
                         /\ rDelay' = NextDelay(rDelay, RetryFactor)
                         /\ qDelay' = QueryDelay
                         /\ UNCHANGED <<thrown, exhausted>>
                    ELSE /\ ePc' = "rejected"
                         /\ thrown' = r.err
                         /\ exhausted' = \/ QueryBudgetSpent(e, inner)
                                         \/ outer = 0 /\ RetryIsTransient(q.err)
                         /\ UNCHANGED <<inner, outer, qDelay, rDelay, wait>>
           ELSE /\ ePc' = "rejected"
                /\ thrown' = q.err
                /\ exhausted' = QueryBudgetSpent(e, inner)
                /\ UNCHANGED <<inner, outer, qDelay, rDelay, wait>>
    /\ UNCHANGED <<site, attempts, result>>
    /\ UNCHANGED <<appVars, settingsVars, tableVars, viewVars, userVars, editVars>>

\* Sidebar.jsx fetchBoards: monday.api directly. A response with an error
\* list takes the `else` of line 30 (no boards in it): an empty board list.
RawAttemptFails(e) ==
    /\ ePc = "attempt"
    /\ ~UsesQueryMonday(site)
    /\ NoteError(e)
    /\ IF e.chan = "errors"
       THEN /\ ePc' = "resolved"
            /\ result' = "empty"
            /\ UNCHANGED <<thrown>>
       ELSE /\ ePc' = "rejected"
            /\ thrown' = e
            /\ UNCHANGED <<result>>
    /\ UNCHANGED <<site, inner, outer, attempts, exhausted, qDelay, rDelay, wait>>
    /\ UNCHANGED <<appVars, settingsVars, tableVars, viewVars, userVars, editVars>>

\* The setTimeout of a retry fired: the next monday.api is issued.
BackoffElapsed ==
    /\ ePc \in {"backoffQ", "backoffR"}
    /\ ePc' = "attempt"
    /\ attempts' = attempts + 1
    /\ wait' = 0
    /\ UNCHANGED <<site, inner, outer, lastErr, prevErr, uniform, thrown,
                   exhausted, result, qDelay, rDelay>>
    /\ UNCHANGED <<appVars, settingsVars, tableVars, viewVars, userVars, editVars>>

\* The caller has taken the outcome; the site may be called again.
CallReturns ==
    /\ ePc \in {"resolved", "rejected"}
    /\ site' = "none"
    /\ ePc' = "idle"
    /\ inner' = 0
    /\ outer' = 0
    /\ attempts' = 0
    /\ lastErr' = NoErr
    /\ prevErr' = NoErr
    /\ uniform' = TRUE
    /\ thrown' = NoErr
    /\ exhausted' = FALSE
    /\ result' = "none"
    /\ qDelay' = 0
    /\ rDelay' = 0
    /\ wait' = 0
    /\ UNCHANGED <<appVars, settingsVars, tableVars, viewVars, userVars, editVars>>

ExecNext ==
    \/ \E s \in Sites : StartCall(s)
    \/ AttemptSucceeds
    \/ \E e \in UpstreamErrors : QueryAttemptFails(e)
    \/ \E e \in UpstreamErrors : RawAttemptFails(e)
    \/ BackoffElapsed
    \/ CallReturns

----------------------------------------------------------------------------
(* Upstream data.                                                          *)

Boards == {"b1", "b2"}
Cols == {"c1"}

\* Most fetchBoardData invocations that reach the network in one behaviour.
MaxFetches == 3
\* Most mutations upstream applies in one behaviour.
MaxEdits == 1

Range(seq) == {seq[i] : i \in 1 .. Len(seq)}

RemoveAt(seq, r) == [i \in 1 .. Len(seq) - 1 |-> IF i < r THEN seq[i] ELSE seq[i + 1]]

BoardName == [b \in Boards |-> <<"name of", b>>]
ItemId == [b \in Boards |-> <<"item of", b>>]

\* GET_BOARD_COLUMNS_QUERY (`boards { id name columns }`, no ids, no limit
\* argument) returns every board, or only the first page of them.
ListedChoices == {Boards, {"b1"}}

\* boards { columns { id title ... } }: every board defines the same column
\* ids, each with a title of its own.
BoardColumns == [b \in Boards |-> << [id |-> "c1", title |-> <<"c1 on", b>>] >>]

\* items_page.items of GET_BOARD_ITEMS_WITH_COLUMNS_QUERY(b, columnIds) when
\* the data stands at version v: each item carries its own board { id name }.
ItemsPage(b, v) == << [id |-> ItemId[b], name |-> v, board |-> b] >>

\* Errors a rejected retry(queryMonday(...)) may carry, by whether their
\* message contains "columns" (fetchBoardData line 144).
FetchErrors == {[mentionsColumns |-> m] : m \in BOOLEAN}

----------------------------------------------------------------------------
(* App.jsx.                                                                *)

EmptyMap == [b \in {} |-> {}]
NoEdit == [pc |-> "none", row |-> 0, selB |-> << >>, selC |-> << >>]
NoEvent == [type |-> "none", promise |-> "none", discarded |-> 0]
InFlight == 1 .. Len(refreshes)

\* handleBoardToggle / handleColumnToggle: prev.includes(x) ? filter : [...prev, x]
Toggle(prev, x) ==
    IF x \in Range(prev)
    THEN SelectSeq(prev, LAMBDA y : y # x)
    ELSE Append(prev, x)

\* line 133: newAllBoardsData[boardId]?.name || `Board ${boardId}`
BoardNameTag(newAll, boardId) ==
    IF boardId \in DOMAIN newAll THEN newAll[boardId].name ELSE <<"Board", boardId>>

\* lines 130-134: ({...item, boardId, boardName})
TagItem(item, boardId, newAll) ==
    [id |-> item.id, name |-> item.name, board |-> item.board,
     boardId |-> boardId, boardName |-> BoardNameTag(newAll, boardId)]

\* lines 106-116: the boards of the listing that are selected
FilterColumnsData(selB) ==
    [b \in (Range(selB) \cap listed) |-> [name |-> BoardName[b], columns |-> BoardColumns[b]]]

----------------------------------------------------------------------------
(* monday.storage and JSON.                                                *)

\* The view state of the specification (section 3): what the user has chosen.
ViewState(selB, selC, filters, sort, open) ==
    [selectedBoardIds |-> selB, selectedColumnIds |-> selC,
     activeFilters |-> filters, sort |-> sort, panelOpen |-> open]

NoView == ViewState(<< >>, << >>, EmptyMap, EmptyMap, FALSE)

\* A JavaScript object literal is the sequence of its <<key, value>>
\* properties. App.jsx lines 233-237.
SettingsToSave(selB, selC, open) ==
    << <<"selectedBoardIds", selB>>,
       <<"selectedColumnIds", selC>>,
       <<"isSidebarOpen", open>> >>

\* JSON.stringify: the text holds the properties in order.
JSONStringify(obj) == [kind |-> "json", text |-> obj]

\* JSON.parse of a JSON text: the object as a function of its keys.
JSONParse(text) ==
    [k \in {text[i][1] : i \in 1 .. Len(text)} |->
        (CHOOSE i \in 1 .. Len(text) : text[i][1] = k /\ \A j \in i + 1 .. Len(text) : text[j][1] # k)]

ValueAt(text, k) == text[JSONParse(text)[k]][2]

Has(text, k) == k \in DOMAIN JSONParse(text)

\* Values the storage key can hold. `from` is history: the view state at the
\* time the value was written by this app.
StoredValue(kind, text, from) == [kind |-> kind, text |-> text, from |-> from]

Absent == StoredValue("absent", << >>, NoView)
NotJson == StoredValue("notJson", << >>, NoView)
NonString == StoredValue("nonString", << >>, NoView)
NoWrite == StoredValue("none", << >>, NoView)

\* A value written by an earlier version of the app (line 180 reads its key).
LegacyJson ==
    StoredValue("json", << <<"selectedBoardIds", <<"b1">> >>, <<"isDialogOpen", TRUE>> >>,
                NoView)

ForeignValues == {NotJson, NonString, LegacyJson}

RemoveItemApis == {"resolves", "rejects", "unavailable"}

\* Most mounts of the app in one behaviour.
MaxMounts == 2
\* Most setItem calls in flight at once.
MaxPending == 1

Init ==
    /\ site = "none"
    /\ ePc = "idle"
    /\ inner = 0
    /\ outer = 0
    /\ attempts = 0
    /\ lastErr = NoErr
    /\ prevErr = NoErr
    /\ uniform = TRUE
    /\ thrown = NoErr
    /\ exhausted = FALSE
    /\ result = "none"
    /\ qDelay = 0
    /\ rDelay = 0
    /\ wait = 0
    /\ selectedBoardIds = << >>
    /\ selectedColumnIds = << >>
    /\ allBoardsData = EmptyMap
    /\ boardItems = << >>
    /\ isAppLoading = TRUE
    /\ isLoadingColumns = FALSE
    /\ isLoadingItems = FALSE
    /\ isPolling = FALSE
    /\ columnsError = "null"
    /\ itemsError = "null"
    /\ refreshes = << >>
    /\ edit = NoEdit
    /\ srvVer = 0
    /\ listed \in ListedChoices
    /\ event = NoEvent
    /\ fetches = 0
    /\ isSidebarOpen = FALSE
    /\ appError = "null"
    /\ sPc = "unmounted"
    /\ stored = Absent
    /\ pending = {}
    /\ removeItemApi = "resolves"
    /\ loadRead = "none"
    /\ lastWrite = NoWrite
    /\ mounts = 0
    /\ sorting = EmptyMap
    /\ activeFilters = EmptyMap
    /\ tableItems = << >>
    /\ columnIds = << >>
    /\ currentUserId = "null"
    /\ filteredAndSortedBoardItems = << >>
    /\ cachedUsers = EmptyMap
    /\ userCalls = << >>
    /\ userCallsIssued = [u \in {"u1", "u2"} |-> 0]
    /\ editingItemId = "null"
    /\ editedItemName = ""
    /\ renameCalls = 0
    /\ renamesSent = 0

\* A fetchBoardData that abandons the invocations still in flight.
FetchBoardDataCancelling(trigger, selB, selC) ==
    IF Len(selB) = 0
    THEN /\ allBoardsData' = EmptyMap
         /\ boardItems' = << >>
         /\ columnsError' = "null"
         /\ itemsError' = "null"
         /\ refreshes' = << >>
         /\ isPolling' = FALSE
         /\ UNCHANGED fetches
    ELSE /\ fetches < MaxFetches
         /\ fetches' = fetches + 1
         /\ refreshes' =
                << [pc |-> "cols", trigger |-> trigger, selB |-> selB, selC |-> selC,
                    idx |-> 0, newAll |-> EmptyMap, fetched |-> << >>,
                    log |-> << <<"issue", "columns">> >>] >>
         /\ isPolling' = TRUE
         /\ columnsError' = "null"
         /\ itemsError' = "null"
         /\ UNCHANGED <<allBoardsData, boardItems>>

\* fetchBoardData, lines 83-104: from the call to its first await.
\* selB, selC are the selection its closure holds.
FetchBoardData(trigger, selB, selC) ==
    IF Len(selB) = 0
    THEN /\ allBoardsData' = EmptyMap
         /\ boardItems' = << >>
         /\ columnsError' = "null"
         /\ itemsError' = "null"
         /\ UNCHANGED <<refreshes, isPolling, fetches>>
    ELSE /\ fetches < MaxFetches
         /\ fetches' = fetches + 1
         /\ refreshes' = Append(refreshes,
                [pc |-> "cols", trigger |-> trigger, selB |-> selB, selC |-> selC,
                 idx |-> 0, newAll |-> EmptyMap, fetched |-> << >>,
                 log |-> << <<"issue", "columns">> >>])
         /\ isPolling' = TRUE
         /\ columnsError' = "null"
         /\ itemsError' = "null"
         /\ UNCHANGED <<allBoardsData, boardItems>>

\* loadContentData, lines 255-265, run by the effect of lines 254-268 after
\* the selection or isAppLoading changed (isAppLoading is false by then).
\* With no board selected fetchBoardData returns without awaiting and lines
\* 263-264 follow at once.
LoadContentData(selB, selC) ==
    /\ FetchBoardData("selection", selB, selC)
    /\ isLoadingColumns' = (Len(selB) # 0)
    /\ isLoadingItems' = (Len(selB) # 0)
    /\ event' = IF Len(selB) = 0
                THEN [type |-> "fetchOk", promise |-> "resolved", discarded |-> 0]
                ELSE NoEvent

\* TaskTable is rendered (App.jsx lines 508-527).
TableMounted ==
    /\ ~isAppLoading /\ ~isLoadingColumns /\ ~isLoadingItems
    /\ Len(selectedBoardIds) > 0
    /\ Len(selectedColumnIds) > 0
    /\ Len(boardItems) > 0

\* A Map, kept as the sequence of its values in insertion order, has key id.
MapHas(columnsMap, id) == \E j \in 1 .. Len(columnsMap) : columnsMap[j].id = id

\* columnsMap.set(col.id, col) whether or not the id is present.
SetColumnOverwriting(columnsMap, col) ==
    IF MapHas(columnsMap, col.id)
    THEN [j \in 1 .. Len(columnsMap) |->
             IF columnsMap[j].id = col.id THEN col ELSE columnsMap[j]]
    ELSE Append(columnsMap, col)

\* Lines 371-373: if (!columnsMap.has(col.id)) columnsMap.set(col.id, col)
SetColumn(columnsMap, col) ==
    IF ~MapHas(columnsMap, col.id)
    THEN Append(columnsMap, col)
    ELSE columnsMap

\* Line 370: allBoardsData[boardId].columns.forEach from cols[k] on.
RECURSIVE SetColumns(_, _, _)
SetColumns(columnsMap, cols, k) ==
    IF k > Len(cols) THEN columnsMap
    ELSE SetColumns(SetColumn(columnsMap, cols[k]), cols, k + 1)

\* Lines 368-376: selectedBoardIds.forEach from board selB[k] on.
RECURSIVE ColumnsMapFrom(_, _, _, _)
ColumnsMapFrom(columnsMap, selB, abd, k) ==
    IF k > Len(selB) THEN columnsMap
    ELSE IF selB[k] \in DOMAIN abd
         THEN ColumnsMapFrom(SetColumns(columnsMap, abd[selB[k]].columns, 1),
                             selB, abd, k + 1)
         ELSE ColumnsMapFrom(columnsMap, selB, abd, k + 1)

\* useMemo of lines 366-378: Array.from(columnsMap.values()).
allAvailableColumnsForSelectedBoards ==
    ColumnsMapFrom(<< >>, selectedBoardIds, allBoardsData, 1)

\* App renders something else in TaskTable's place (lines 461-476, 508-523):
\* React unmounts the component and discards its state. The next mount
\* starts from the useState defaults of TaskTable.jsx lines 78-94, and a
\* user lookup still in flight resolves into the discarded instance.
TaskTableUnmounted ==
    /\ sorting' = EmptyMap
    /\ activeFilters' = EmptyMap
    /\ tableItems' = << >>
    /\ columnIds' = << >>
    /\ currentUserId' = "null"
    /\ filteredAndSortedBoardItems' = << >>
    /\ cachedUsers' = EmptyMap
    /\ userCalls' = << >>
    /\ editingItemId' = "null"
    /\ editedItemName' = ""
    /\ renameCalls' = 0
    /\ UNCHANGED <<userCallsIssued, renamesSent>>

\* What a step of App does to TaskTable: its state lives on only if App
\* still renders it after the step.
TaskTableFollows ==
    IF TableMounted'
    THEN UNCHANGED <<tableVars, viewVars, userVars, editVars>>
    ELSE TaskTableUnmounted

\* loadSettings' finally, lines 221-223, with the selection it restored;
\* then the effects that depend on isAppLoading run.
SettingsLoaded(selB, selC) ==
    /\ isAppLoading
    /\ isAppLoading' = FALSE
    /\ selectedBoardIds' = selB
    /\ selectedColumnIds' = selC
    /\ LoadContentData(selB, selC)
    /\ UNCHANGED <<edit, srvVer, listed>>
    /\ UNCHANGED <<execVars, settingsVars>>
    /\ TaskTableFollows

\* handleBoardToggle, lines 317-323, and the effect of lines 254-268.
BoardToggle(b) ==
    /\ ~isAppLoading
    /\ selectedBoardIds' = Toggle(selectedBoardIds, b)
    /\ LoadContentData(selectedBoardIds', selectedColumnIds)
    /\ UNCHANGED <<selectedColumnIds, isAppLoading, edit, srvVer, listed>>
    /\ UNCHANGED <<execVars, settingsVars>>
    /\ TaskTableFollows

\* handleColumnToggle, lines 381-387, and the effect of lines 254-268.
ColumnToggle(c) ==
    /\ ~isAppLoading
    /\ selectedColumnIds' = Toggle(selectedColumnIds, c)
    /\ LoadContentData(selectedBoardIds, selectedColumnIds')
    /\ UNCHANGED <<selectedBoardIds, isAppLoading, edit, srvVer, listed>>
    /\ UNCHANGED <<execVars, settingsVars>>
    /\ TaskTableFollows

\* line 277
PollingGuard ==
    /\ ~isAppLoading /\ ~isLoadingColumns /\ ~isLoadingItems
    /\ Len(selectedBoardIds) > 0
    /\ Len(selectedColumnIds) > 0

\* The setInterval callback of lines 273-284 fires and passes its guard.
\* (A tick that fails the guard only logs.)
TimerTick ==
    /\ PollingGuard
    /\ FetchBoardData("timer", selectedBoardIds, selectedColumnIds)
    /\ event' = NoEvent
    /\ UNCHANGED <<selectedBoardIds, selectedColumnIds, isAppLoading,
                   isLoadingColumns, isLoadingItems, edit, srvVer, listed>>
    /\ UNCHANGED <<execVars, settingsVars>>
    /\ TaskTableFollows

\* A loadContentData that returns without running lines 263-264.
FetchEndsStillLoading(r) ==
    /\ isPolling' = FALSE
    /\ UNCHANGED <<isLoadingColumns, isLoadingItems>>

\* fetchBoardData's finally (line 151) and, for a fetch loadContentData
\* awaited, lines 263-264.
FetchEnds(r) ==
    /\ isPolling' = FALSE
    /\ IF refreshes[r].trigger = "selection"
       THEN isLoadingColumns' = FALSE /\ isLoadingItems' = FALSE
       ELSE UNCHANGED <<isLoadingColumns, isLoadingItems>>

\* The for loop of line 120, walked from the end.
BoardAtReversed(selB, idx) == selB[Len(selB) + 1 - idx]

\* The for loop of line 120: the idx-th board it visits.
BoardAt(selB, idx) == selB[idx]

\* The column listing resolved: lines 106-127. With no column selected the
\* loop skips every board and line 140 runs at once.
ColumnsArrive(r) ==
    /\ r \in InFlight
    /\ refreshes[r].pc = "cols"
    /\ LET rec == refreshes[r]
           newAll == FilterColumnsData(rec.selB)
       IN  /\ allBoardsData' = newAll
           /\ IF Len(rec.selC) = 0
              THEN /\ boardItems' = << >>
                   /\ refreshes' = RemoveAt(refreshes, r)
                   /\ event' = [type |-> "fetchOk", promise |-> "resolved",
                                discarded |-> 0]
                   /\ FetchEnds(r)
              ELSE /\ refreshes' = [refreshes EXCEPT ![r] =
                        [rec EXCEPT !.pc = "items", !.idx = 1, !.newAll = newAll,
                                    !.log = rec.log \o
                                       << <<"done", "columns">>,
                                          <<"issue", BoardAt(rec.selB, 1)>> >>]]
                   /\ event' = NoEvent
                   /\ UNCHANGED <<boardItems, isPolling, isLoadingColumns,
                                  isLoadingItems>>
    /\ UNCHANGED <<selectedBoardIds, selectedColumnIds, isAppLoading, columnsError,
                   itemsError, edit, srvVer, listed>>
    /\ UNCHANGED fetches
    /\ UNCHANGED <<execVars, settingsVars>>
    /\ TaskTableFollows

\* A catch that keeps the items fetched before the failure.
FetchFailsMerging(r, err) ==
    /\ IF err.mentionsColumns
       THEN columnsError' = "set" /\ UNCHANGED itemsError
       ELSE itemsError' = "set" /\ UNCHANGED columnsError
    /\ boardItems' = refreshes[r].fetched
    /\ refreshes' = RemoveAt(refreshes, r)
    /\ event' = [type |-> "fetchFailed", promise |-> "resolved",
                 discarded |-> Len(refreshes[r].fetched)]
    /\ FetchEnds(r)
    /\ UNCHANGED <<selectedBoardIds, selectedColumnIds, allBoardsData,
                   isAppLoading, edit, srvVer, listed>>
    /\ UNCHANGED fetches

\* The catch of lines 142-148 and the finally: the async function returns
\* normally, so the promise its caller awaits resolves.
FetchFails(r, err) ==
    /\ IF err.mentionsColumns
       THEN columnsError' = "set" /\ UNCHANGED itemsError
       ELSE itemsError' = "set" /\ UNCHANGED columnsError
    /\ refreshes' = RemoveAt(refreshes, r)
    /\ event' = [type |-> "fetchFailed", promise |-> "resolved",
                 discarded |-> Len(refreshes[r].fetched)]
    /\ FetchEnds(r)
    /\ UNCHANGED <<selectedBoardIds, selectedColumnIds, allBoardsData, boardItems,
                   isAppLoading, edit, srvVer, listed>>
    /\ UNCHANGED fetches

\* The column listing rejected (retry(queryMonday) gave up).
ColumnsFail(r, err) ==
    /\ r \in InFlight
    /\ refreshes[r].pc = "cols"
    /\ FetchFails(r, err)
    /\ UNCHANGED <<execVars, settingsVars>>
    /\ TaskTableFollows

\* An item listing resolved: lines 129-140.
ItemsArrive(r) ==
    /\ r \in InFlight
    /\ refreshes[r].pc = "items"
    /\ LET rec == refreshes[r]
           boardId == BoardAt(rec.selB, rec.idx)
           page == ItemsPage(boardId, srvVer)
           tagged == [i \in 1 .. Len(page) |-> TagItem(page[i], boardId, rec.newAll)]
           fetchedItems == rec.fetched \o tagged
       IN  IF rec.idx < Len(rec.selB)
           THEN /\ refreshes' = [refreshes EXCEPT ![r] =
                     [rec EXCEPT !.idx = rec.idx + 1, !.fetched = fetchedItems,
                                 !.log = rec.log \o
                                    << <<"done", boardId>>,
                                       <<"issue", BoardAt(rec.selB, rec.idx + 1)>> >>]]
                /\ event' = NoEvent
                /\ UNCHANGED <<boardItems, isPolling, isLoadingColumns,
                               isLoadingItems>>
           ELSE /\ boardItems' = fetchedItems
                /\ refreshes' = RemoveAt(refreshes, r)
                /\ event' = [type |-> "fetchOk", promise |-> "resolved",
                             discarded |-> 0]
                /\ FetchEnds(r)
    /\ UNCHANGED <<selectedBoardIds, selectedColumnIds, allBoardsData, isAppLoading,
                   columnsError, itemsError, edit, srvVer, listed>>
    /\ UNCHANGED fetches
    /\ UNCHANGED <<execVars, settingsVars>>
    /\ TaskTableFollows

\* An item listing rejected.
ItemsFail(r, err) ==
    /\ r \in InFlight
    /\ refreshes[r].pc = "items"
    /\ FetchFails(r, err)
    /\ UNCHANGED <<execVars, settingsVars>>
    /\ TaskTableFollows

\* handleSaveEdit up to line 205 (kind "rename") or handleStatusChange up to
\* line 343 (kind "status") on row k: the mutation is sent. The handler keeps
\* the props of the render it was created in: onItemUpdated, whose
\* fetchBoardData holds that render's selection, and boardItems, in which
\* line 206 always finds the row's item again. From here on the two handlers
\* do the same.
StartEdit(kind, k) ==
    /\ TableMounted
    /\ edit = NoEdit
    /\ srvVer < MaxEdits
    /\ k \in 1 .. Len(boardItems)
    /\ kind \in {"rename", "status"}
    /\ edit' = [pc |-> "sent", row |-> k,
                selB |-> selectedBoardIds, selC |-> selectedColumnIds]
    /\ event' = NoEvent
    /\ UNCHANGED <<selectedBoardIds, selectedColumnIds, allBoardsData, boardItems,
                   isAppLoading, isLoadingColumns, isLoadingItems, isPolling,
                   columnsError, itemsError, refreshes, srvVer, listed>>
    /\ UNCHANGED fetches
    /\ UNCHANGED <<execVars, settingsVars>>
    /\ TaskTableFollows

\* A handler that writes the new value into the displayed row and does not
\* re-fetch.
OnMutationSuccessPatching ==
    /\ boardItems' = [i \in 1 .. Len(boardItems) |->
                        IF i = edit.row /\ i <= Len(boardItems)
                        THEN [boardItems[i] EXCEPT !.name = srvVer + 1]
                        ELSE boardItems[i]]
    /\ UNCHANGED <<allBoardsData, columnsError, itemsError, refreshes, isPolling>>
    /\ UNCHANGED fetches

\* Lines 206-209 / 344-346: onItemUpdated -> handleItemUpdated (App.jsx
\* lines 434-438) -> fetchBoardData.
OnMutationSuccess == FetchBoardData("edit", edit.selB, edit.selC)

\* The mutation resolved: upstream has applied it.
EditSucceeds ==
    /\ edit.pc = "sent"
    /\ srvVer' = srvVer + 1
    /\ OnMutationSuccess
    /\ edit' = NoEdit
    /\ event' = [type |-> "editOk", promise |-> "resolved", discarded |-> 0]
    /\ UNCHANGED <<selectedBoardIds, selectedColumnIds, isAppLoading,
                   isLoadingColumns, isLoadingItems, listed>>
    /\ UNCHANGED <<execVars, settingsVars>>
    /\ TaskTableFollows

\* A catch that re-fetches after the alert.
OnMutationFailureRefetching ==
    /\ event' = [type |-> "alert", promise |-> "rejected", discarded |-> 0]
    /\ FetchBoardData("edit", edit.selB, edit.selC)

\* The catch of lines 210-213 / 347-350: alert(...) and nothing else.
OnMutationFailure ==
    /\ event' = [type |-> "alert", promise |-> "rejected", discarded |-> 0]
    /\ UNCHANGED <<allBoardsData, boardItems, columnsError, itemsError, refreshes,
                   isPolling>>
    /\ UNCHANGED fetches

\* The mutation rejected (queryMonday threw): upstream has not applied it.
EditFails ==
    /\ edit.pc = "sent"
    /\ OnMutationFailure
    /\ edit' = NoEdit
    /\ UNCHANGED <<selectedBoardIds, selectedColumnIds, isAppLoading,
                   isLoadingColumns, isLoadingItems, srvVer, listed>>
    /\ UNCHANGED <<execVars, settingsVars>>
    /\ TaskTableFollows

\* Selections the settings in storage may hold.
StoredBoardSelections == {<< >>, <<"b1", "b2">>}
StoredColumnSelections == {<< >>, <<"c1">>}

Next ==
    \/ \E selB \in StoredBoardSelections, selC \in StoredColumnSelections :
          SettingsLoaded(selB, selC)
    \/ \E b \in Boards : BoardToggle(b)
    \/ \E c \in Cols : ColumnToggle(c)
    \/ TimerTick
    \/ \E r \in 1 .. MaxFetches : ColumnsArrive(r)
    \/ \E r \in 1 .. MaxFetches, err \in FetchErrors : ColumnsFail(r, err)
    \/ \E r \in 1 .. MaxFetches : ItemsArrive(r)
    \/ \E r \in 1 .. MaxFetches, err \in FetchErrors : ItemsFail(r, err)
    \/ \E kind \in {"rename", "status"}, k \in 1 .. Cardinality(Boards) :
          StartEdit(kind, k)
    \/ EditSucceeds
    \/ EditFails

Spec == Init /\ [][Next]_vars

ExecSpec == Init /\ [][ExecNext]_vars

\* A call of some fetchBoardData in flight resolves or rejects.
NetworkReturns ==
    \/ \E r \in 1 .. MaxFetches : ColumnsArrive(r)
    \/ \E r \in 1 .. MaxFetches, err \in FetchErrors : ColumnsFail(r, err)
    \/ \E r \in 1 .. MaxFetches : ItemsArrive(r)
    \/ \E r \in 1 .. MaxFetches, err \in FetchErrors : ItemsFail(r, err)

\* Loads the model lets overlap.
MaxInFlight == 2

\* The selection, the timer and the network, with no cell edit; the user and
\* the timer start a load while fewer than MaxInFlight are in flight.
LoadNext ==
    \/ \E selB \in StoredBoardSelections, selC \in StoredColumnSelections :
          SettingsLoaded(selB, selC)
    \/ \E b \in Boards : Len(refreshes) < MaxInFlight /\ BoardToggle(b)
    \/ \E c \in Cols : Len(refreshes) < MaxInFlight /\ ColumnToggle(c)
    \/ Len(refreshes) < MaxInFlight /\ TimerTick
    \/ \E r \in 1 .. MaxFetches : ColumnsArrive(r)
    \/ \E r \in 1 .. MaxFetches, err \in FetchErrors : ColumnsFail(r, err)
    \/ \E r \in 1 .. MaxFetches : ItemsArrive(r)
    \/ \E r \in 1 .. MaxFetches, err \in FetchErrors : ItemsFail(r, err)

\* LoadNext with an upstream that answers: retry(queryMonday(...)) makes a
\* bounded number of attempts, so each awaited call returns if every
\* monday.api call does.
LoadSpec == Init /\ [][LoadNext]_vars /\ WF_vars(NetworkReturns)

----------------------------------------------------------------------------
(* SettingsSpec: loadSettings and saveSettingsAutomatically.               *)

\* What these actions never touch.
settingsFrame == <<execVars, allBoardsData, boardItems, isLoadingColumns,
                   isLoadingItems, isPolling, columnsError, itemsError, refreshes,
                   edit, srvVer, listed, fetches, viewVars, userVars, editVars>>

SettingsEvent(type) == [type |-> type, promise |-> "none", discarded |-> 0]

\* A save effect that does not wait for the initial load.
SaveSettingsUnguarded(loading, selB, selC, open, filters, sort) ==
    LET w == StoredValue("json", JSONStringify(SettingsToSave(selB, selC, open)).text,
                         ViewState(selB, selC, filters, sort, open))
    IN  /\ pending' = pending \cup {w}
        /\ Cardinality(pending') <= MaxPending
        /\ lastWrite' = w

\* The effect of lines 229-250, run after a render in which one of its
\* dependencies changed; its arguments are that render's state.
SaveSettingsAutomatically(loading, selB, selC, open, filters, sort) ==
    IF ~loading
    THEN LET w == StoredValue("json", JSONStringify(SettingsToSave(selB, selC, open)).text,
                              ViewState(selB, selC, filters, sort, open))
         IN  /\ pending' = pending \cup {w}
             /\ Cardinality(pending') <= MaxPending
             /\ lastWrite' = w
    ELSE /\ lastWrite' = NoWrite
         /\ UNCHANGED pending

\* The app is mounted (first load, or a reload of the page): React state is
\* the useState defaults, and the effects of the first render run: the save
\* effect, and loadSettings up to its getItem (lines 160-164).
Mount(api) ==
    /\ sPc \in {"unmounted", "done"}
    /\ mounts < MaxMounts
    /\ mounts' = mounts + 1
    /\ removeItemApi' = api
    /\ selectedBoardIds' = << >>
    /\ selectedColumnIds' = << >>
    /\ isSidebarOpen' = FALSE
    /\ isAppLoading' = TRUE
    /\ appError' = "null"
    /\ sorting' = EmptyMap
    /\ activeFilters' = EmptyMap
    /\ SaveSettingsAutomatically(TRUE, << >>, << >>, FALSE, EmptyMap, EmptyMap)
    /\ sPc' = "getItem"
    /\ loadRead' = "none"
    /\ event' = SettingsEvent("none")
    /\ UNCHANGED stored
    /\ UNCHANGED settingsFrame

\* Storage holds a value this version of the app did not write.
ForeignWrite(v) ==
    /\ sPc = "unmounted"
    /\ stored = Absent
    /\ stored' = v
    /\ event' = SettingsEvent("none")
    /\ UNCHANGED <<selectedBoardIds, selectedColumnIds, isAppLoading, isSidebarOpen,
                   appError, sPc, pending, removeItemApi, loadRead, lastWrite, mounts,
                   tableVars>>
    /\ UNCHANGED settingsFrame

\* loadSettings' finally (lines 221-223) with the state the load leaves, and
\* the save effect that isAppLoading's change triggers.
LoadFinally(selB, selC, open) ==
    /\ selectedBoardIds' = selB
    /\ selectedColumnIds' = selC
    /\ isSidebarOpen' = open
    /\ isAppLoading' = FALSE
    /\ sPc' = "done"
    /\ event' = SettingsEvent("loadEnded")
    /\ SaveSettingsAutomatically(FALSE, selB, selC, open, activeFilters, sorting)

\* A parse failure that is only logged.
OnParseFailureIgnoring == "finally"

\* Lines 187-195 and 196-204: what follows a value that is not a JSON string.
OnParseFailure == IF removeItemApi = "unavailable" THEN "finally" ELSE "removeItem"

\* A load that only knows the keys of earlier versions.
AppliedSidebarOpenLegacyOnly(text) ==
    IF Has(text, "isDialogOpen") THEN ValueAt(text, "isDialogOpen")
    ELSE IF Has(text, "isPopoverOpen") THEN ValueAt(text, "isPopoverOpen")
    ELSE isSidebarOpen

\* Lines 173-186: the state after applying the parsed settings.
AppliedBoardIds(text) ==
    IF Has(text, "selectedBoardIds") THEN ValueAt(text, "selectedBoardIds")
    ELSE selectedBoardIds

AppliedColumnIds(text) ==
    IF Has(text, "selectedColumnIds") THEN ValueAt(text, "selectedColumnIds")
    ELSE selectedColumnIds

AppliedSidebarOpen(text) ==
    IF Has(text, "isDialogOpen") THEN ValueAt(text, "isDialogOpen")
    ELSE IF Has(text, "isPopoverOpen") THEN ValueAt(text, "isPopoverOpen")
    ELSE IF Has(text, "isSidebarOpen") THEN ValueAt(text, "isSidebarOpen")
    ELSE isSidebarOpen

\* getItem resolved with the value storage holds: lines 165-207.
GetItemResolves ==
    /\ sPc = "getItem"
    /\ loadRead' = stored.kind
    /\ IF stored.kind = "json"
       THEN /\ LoadFinally(AppliedBoardIds(stored.text), AppliedColumnIds(stored.text),
                           AppliedSidebarOpen(stored.text))
       ELSE IF stored.kind = "absent" \/ OnParseFailure = "finally"
       THEN LoadFinally(selectedBoardIds, selectedColumnIds, isSidebarOpen)
       ELSE /\ sPc' = "removeItem"
            /\ event' = SettingsEvent("none")
            /\ lastWrite' = NoWrite
            /\ UNCHANGED <<selectedBoardIds, selectedColumnIds, isAppLoading,
                           isSidebarOpen, pending>>
    /\ UNCHANGED <<appError, stored, removeItemApi, mounts, tableVars>>
    /\ UNCHANGED settingsFrame

\* A catch that reports the failed read and leaves the entry alone.
GetItemRejectsKeeping ==
    /\ sPc = "getItem"
    /\ loadRead' = "rejected"
    /\ appError' = "set"
    /\ LoadFinally(selectedBoardIds, selectedColumnIds, isSidebarOpen)
    /\ UNCHANGED <<stored, removeItemApi, mounts, tableVars>>
    /\ UNCHANGED settingsFrame

\* getItem rejected: the outer catch, lines 208-220.
GetItemRejects ==
    /\ sPc = "getItem"
    /\ loadRead' = "rejected"
    /\ appError' = "set"
    /\ IF removeItemApi = "unavailable"
       THEN LoadFinally(selectedBoardIds, selectedColumnIds, isSidebarOpen)
       ELSE /\ sPc' = "removeItemAfterError"
            /\ event' = SettingsEvent("none")
            /\ lastWrite' = NoWrite
            /\ UNCHANGED <<selectedBoardIds, selectedColumnIds, isAppLoading,
                           isSidebarOpen, pending>>
    /\ UNCHANGED <<stored, removeItemApi, mounts, tableVars>>
    /\ UNCHANGED settingsFrame

\* removeItem resolved (line 190, 199 or 213): the entry is gone.
RemoveItemResolves ==
    /\ sPc \in {"removeItem", "removeItemAfterError"}
    /\ removeItemApi = "resolves"
    /\ stored' = Absent
    /\ LoadFinally(selectedBoardIds, selectedColumnIds, isSidebarOpen)
    /\ UNCHANGED <<appError, removeItemApi, loadRead, mounts, tableVars>>
    /\ UNCHANGED settingsFrame

\* removeItem rejected. At line 190 or 199 the rejection reaches the outer
\* catch, which sets the error and tries the removal again (line 213); at
\* line 213 it is caught and logged.
RemoveItemRejects ==
    /\ sPc \in {"removeItem", "removeItemAfterError"}
    /\ removeItemApi = "rejects"
    /\ IF sPc = "removeItem"
       THEN /\ appError' = "set"
            /\ sPc' = "removeItemAfterError"
            /\ event' = SettingsEvent("none")
            /\ lastWrite' = NoWrite
            /\ UNCHANGED <<selectedBoardIds, selectedColumnIds, isAppLoading,
                           isSidebarOpen, pending>>
       ELSE /\ LoadFinally(selectedBoardIds, selectedColumnIds, isSidebarOpen)
            /\ UNCHANGED appError
    /\ UNCHANGED <<stored, removeItemApi, loadRead, mounts, tableVars>>
    /\ UNCHANGED settingsFrame

\* Storage applies a setItem (line 239 resolves).
SetItemApplied ==
    /\ \E w \in pending :
          /\ stored' = w
          /\ pending' = pending \ {w}
    /\ lastWrite' = NoWrite
    /\ event' = SettingsEvent("none")
    /\ UNCHANGED <<selectedBoardIds, selectedColumnIds, isAppLoading, isSidebarOpen,
                   appError, sPc, removeItemApi, loadRead, mounts, tableVars>>
    /\ UNCHANGED settingsFrame

\* The sidebar and the table are on screen (App.jsx lines 461-476).
AppRendered == sPc = "done" /\ ~isAppLoading /\ appError = "null"

\* A user action set the selection or the panel; the save effect follows.
StateChanged(selB, selC, open) ==
    /\ AppRendered
    /\ selectedBoardIds' = selB
    /\ selectedColumnIds' = selC
    /\ isSidebarOpen' = open
    /\ SaveSettingsAutomatically(isAppLoading, selB, selC, open, activeFilters, sorting)
    /\ event' = SettingsEvent("none")
    /\ UNCHANGED <<isAppLoading, appError, sPc, stored, removeItemApi, loadRead,
                   mounts, tableVars>>
    /\ UNCHANGED settingsFrame

\* handleSelectAllBoards, lines 326-333 (the boards are already listed).
HandleSelectAllBoards == StateChanged(<<"b1", "b2">>, selectedColumnIds, isSidebarOpen)

\* handleDeselectAllBoards, lines 358-363.
HandleDeselectAllBoards == StateChanged(<< >>, selectedColumnIds, isSidebarOpen)

\* handleSelectAllColumns, lines 389-395.
HandleSelectAllColumns == StateChanged(selectedBoardIds, <<"c1">>, isSidebarOpen)

\* handleDeselectAllColumns, lines 397-402.
HandleDeselectAllColumns == StateChanged(selectedBoardIds, << >>, isSidebarOpen)

\* toggleSidebar, lines 441-449.
ToggleSidebar == StateChanged(selectedBoardIds, selectedColumnIds, ~isSidebarOpen)

\* TaskTable onSort (lines 229-233) or handleFilterChange (lines 235-250):
\* state of TaskTable, which no effect of App depends on.
TableStateChanged(sort, filters) ==
    /\ AppRendered
    /\ sorting' = sort
    /\ activeFilters' = filters
    /\ <<sort, filters>> # <<sorting, activeFilters>>
    /\ lastWrite' = NoWrite
    /\ event' = SettingsEvent("none")
    /\ UNCHANGED <<selectedBoardIds, selectedColumnIds, isAppLoading, isSidebarOpen,
                   appError, sPc, stored, pending, removeItemApi, loadRead, mounts>>
    /\ UNCHANGED settingsFrame

\* The table states the settings scenarios use, as <<sorting, activeFilters>>:
\* the table as it starts, and sorted and filtered. No effect of App reads
\* them, so the table interactions between two of App's steps count as one.
SettingsTableStates ==
    {<<EmptyMap, EmptyMap>>,
     <<[c \in {"c1"} |-> "asc"], [c \in {"c1"} |-> <<"Done">>]>>}

SettingsNext ==
    \/ \E api \in RemoveItemApis : Mount(api)
    \/ \E v \in ForeignValues : ForeignWrite(v)
    \/ GetItemResolves
    \/ GetItemRejects
    \/ RemoveItemResolves
    \/ RemoveItemRejects
    \/ SetItemApplied
    \/ HandleSelectAllBoards
    \/ HandleDeselectAllBoards
    \/ HandleSelectAllColumns
    \/ HandleDeselectAllColumns
    \/ ToggleSidebar
    \/ \E t \in SettingsTableStates : TableStateChanged(t[1], t[2])

SettingsSpec == Init /\ [][SettingsNext]_vars

----------------------------------------------------------------------------
(* WritesSpec: settings writes that overlap. The save effect does not      *)
(* wait for the setItem of an earlier run, and storage applies the calls   *)
(* in flight in the order it completes them.                               *)

\* Most setItem calls in flight at once while the panel is toggled.
MaxOverlap == 2

\* toggleSidebar, lines 441-449, and the save effect of lines 229-250 that
\* the change triggers, an earlier setItem being in flight or not.
PanelToggled ==
    /\ AppRendered
    /\ Cardinality(pending) < MaxOverlap
    /\ isSidebarOpen' = ~isSidebarOpen
    /\ lastWrite' =
          StoredValue("json",
                      JSONStringify(SettingsToSave(selectedBoardIds, selectedColumnIds,
                                                   isSidebarOpen')).text,
                      ViewState(selectedBoardIds, selectedColumnIds, activeFilters,
                                sorting, isSidebarOpen'))
    /\ pending' = pending \cup {lastWrite'}
    /\ event' = SettingsEvent("none")
    /\ UNCHANGED <<selectedBoardIds, selectedColumnIds, isAppLoading, appError, sPc,
                   stored, removeItemApi, loadRead, mounts, tableVars>>
    /\ UNCHANGED settingsFrame

WritesNext ==
    \/ \E api \in RemoveItemApis : Mount(api)
    \/ \E v \in ForeignValues : ForeignWrite(v)
    \/ GetItemResolves
    \/ RemoveItemResolves
    \/ RemoveItemRejects
    \/ SetItemApplied
    \/ HandleSelectAllBoards
    \/ HandleSelectAllColumns
    \/ PanelToggled

WritesSpec == Init /\ [][WritesNext]_vars

----------------------------------------------------------------------------
(* FilterSpec and SortSpec: TaskTable's filter and sort state and the rows it derives     *)
(* from them (useMemo filteredAndSortedBoardItems).                        *)

\* Longest item list the table is given.
MaxItems == 3

\* ---- JavaScript values

\* null, apart from every string.
JsNull == "<null>"

\* String(v) of a string or null.
StringOf(v) == IF v = JsNull THEN "null" ELSE v

\* Truthiness of a string or null.
Truthy(v) == v # JsNull /\ v # ""

\* String.prototype.trim, on the texts the catalogue holds.
Trim(s) ==
    CASE s = " undefined " -> "undefined"
      [] s = "  " -> ""
      [] OTHER -> s

\* Numbers: the integers and NaN.
NaN == [nan |-> TRUE, n |-> 0]
Num(n) == [nan |-> FALSE, n |-> n]

Minus(x, y) == IF x.nan \/ y.nan THEN NaN ELSE Num(x.n - y.n)
Negate(x) == IF x.nan THEN NaN ELSE Num(0 - x.n)

IsDigit(ch) == ch \in {"0", "1", "2", "3", "4", "5", "6", "7", "8", "9"}

DigitValue(ch) ==
    CASE ch = "0" -> 0 [] ch = "1" -> 1 [] ch = "2" -> 2 [] ch = "3" -> 3
      [] ch = "4" -> 4 [] ch = "5" -> 5 [] ch = "6" -> 6 [] ch = "7" -> 7
      [] ch = "8" -> 8 [] ch = "9" -> 9

RECURSIVE LeadingDigits(_)
LeadingDigits(chars) ==
    IF chars = << >> \/ ~IsDigit(Head(chars))
    THEN << >>
    ELSE <<Head(chars)>> \o LeadingDigits(Tail(chars))

RECURSIVE Decimal(_)
Decimal(ds) ==
    IF ds = << >>
    THEN 0
    ELSE 10 * Decimal(SubSeq(ds, 1, Len(ds) - 1)) + DigitValue(ds[Len(ds)])

\* parseFloat of a text given as its characters: leading blanks, an optional
\* sign, then the longest run of digits; NaN when no digit is there. (Texts
\* with fractions or exponents are outside the catalogue.)
SignedDecimal(negative, ds) ==
    IF ds = << >>
    THEN NaN
    ELSE IF negative THEN Num(0 - Decimal(ds)) ELSE Num(Decimal(ds))

RECURSIVE ParseFloat(_)
ParseFloat(chars) ==
    IF chars = << >>
    THEN NaN
    ELSE IF Head(chars) = " "
         THEN ParseFloat(Tail(chars))
         ELSE IF Head(chars) \in {"-", "+"}
              THEN SignedDecimal(Head(chars) = "-", LeadingDigits(Tail(chars)))
              ELSE SignedDecimal(FALSE, LeadingDigits(chars))

\* new Date(text).getTime(), in days since the epoch, of the date texts the
\* catalogue holds; any other text gives an Invalid Date, whose time is NaN.
DateGetTime(text) ==
    CASE text = "1969-12-31" -> Num(-1)
      [] text = "1970-01-02" -> Num(1)
      [] text = "1970-01-03" -> Num(2)
      [] OTHER -> NaN

\* ---- items and columns

\* A column_values entry. `value` is the JSON text of the cell, by its shape:
\* "blank" (null or ''), "object" ({"personsAndTeams": list}), "array" (list)
\* or "garbage" (not JSON).
Cell(text, value) == [text |-> text, value |-> value]
BlankValue == [kind |-> "blank", list |-> << >>]
ObjectValue(list) == [kind |-> "object", list |-> list]
ArrayValue(list) == [kind |-> "array", list |-> list]
GarbageValue == [kind |-> "garbage", list |-> << >>]
Person(id) == [id |-> id, kind |-> "person"]
Team(id) == [id |-> id, kind |-> "team"]

\* The allBoardColumns prop: column id -> type.
allBoardColumns == [st |-> "status", pp |-> "people", dt |-> "date", nm |-> "numbers"]

\* The items the table can be given: item id -> column id -> cell. Item i2
\* has no entry for the date column.
Catalogue ==
    [i1 |-> [st |-> Cell("Done", BlankValue),
             pp |-> Cell("Ann", ObjectValue(<<Person("u1")>>)),
             dt |-> Cell("1970-01-03", BlankValue),
             nm |-> Cell(<<"3">>, BlankValue)],
     i2 |-> [st |-> Cell("", BlankValue),
             pp |-> Cell("", BlankValue),
             nm |-> Cell(<<"a", "b", "c">>, BlankValue)],
     i3 |-> [st |-> Cell("-", BlankValue),
             pp |-> Cell("", ObjectValue(<< >>)),
             dt |-> Cell("1969-12-31", BlankValue),
             nm |-> Cell(<<"1">>, BlankValue)],
     i4 |-> [st |-> Cell(JsNull, BlankValue),
             pp |-> Cell("Team, Bob, Ann",
                         ArrayValue(<<Team("t1"), Person("u2"), Person("u1")>>)),
             dt |-> Cell("soon", BlankValue),
             nm |-> Cell(<< >>, BlankValue)],
     i5 |-> [st |-> Cell(" undefined ", BlankValue),
             pp |-> Cell("Bob", GarbageValue),
             dt |-> Cell("1970-01-02", BlankValue),
             nm |-> Cell(<<"-", "2">>, BlankValue)]]

ItemIds == DOMAIN Catalogue

\* The user id the host's context reports.
HostUserId == "u1"

\* The two values of the columnIds prop: before any column is selected, and
\* with every column selected.
ColumnIdChoices == {<< >>, <<"st", "pp", "dt", "nm">>}

\* item.column_values.find(cv => cv.id === columnId) is defined.
HasCell(i, c) == c \in DOMAIN Catalogue[i]

\* columnsForTable.find(col => col.id === columnId) is defined.
InColumnsForTable(c, cols) == c \in Range(cols) /\ c \in DOMAIN allBoardColumns

\* The persons a cell value names: entries of kind 'person' of the parsed list.
Persons(value) ==
    IF value.kind \in {"object", "array"}
    THEN SelectSeq(value.list, LAMBDA p : p.kind = "person")
    ELSE << >>

\* ---- the "current user only" stage

IsFilterByCurrentUserActive(filters) ==
    /\ "current_user_filter" \in DOMAIN filters
    /\ "true" \in Range(filters["current_user_filter"])

IsUserMentioned(i, uid) ==
    \E c \in DOMAIN Catalogue[i] :
        /\ c \in DOMAIN allBoardColumns
        /\ allBoardColumns[c] \in {"person", "people"}
        /\ Catalogue[i][c].value.kind \in {"object", "array"}
        /\ \E k \in 1 .. Len(Persons(Catalogue[i][c].value)) :
              Persons(Catalogue[i][c].value)[k].id = uid

FilteredByCurrentUser(items, filters, uid) ==
    IF IsFilterByCurrentUserActive(filters) /\ uid # "null"
    THEN SelectSeq(items, LAMBDA i : IsUserMentioned(i, uid))
    ELSE items

\* ---- the per-column filters

\* A status text kept as it is.
NormalizedStatusRaw(i, c) ==
    IF HasCell(i, c) THEN StringOf(Catalogue[i][c].text) ELSE ""

NormalizedCurrentStatusText(currentStatusText) ==
    IF currentStatusText \in {"-", "undefined", "null", ""}
    THEN "No status"
    ELSE currentStatusText

NormalizedStatus(i, c) ==
    NormalizedCurrentStatusText(
        Trim(StringOf(IF HasCell(i, c) THEN Catalogue[i][c].text ELSE "")))

PassesPersonFilter(i, c, selectedValues) ==
    IF ~HasCell(i, c) \/ Catalogue[i][c].value.kind = "blank"
    THEN "No user" \in Range(selectedValues)
    ELSE IF Catalogue[i][c].value.kind = "garbage"
         THEN FALSE
         ELSE \E k \in 1 .. Len(Persons(Catalogue[i][c].value)) :
                 Persons(Catalogue[i][c].value)[k].id \in Range(selectedValues)

\* One entry of activeFilters, for one item. Filters exist on status and
\* people columns only, so the substring test of the other types is not here.
PassesFilter(i, c, selectedValues, cols) ==
    IF c = "current_user_filter" THEN TRUE
    ELSE IF selectedValues = << >> THEN TRUE
    ELSE IF ~InColumnsForTable(c, cols) THEN TRUE
    ELSE CASE allBoardColumns[c] = "status" ->
                  NormalizedStatus(i, c) \in Range(selectedValues)
           [] allBoardColumns[c] \in {"person", "people"} ->
                  PassesPersonFilter(i, c, selectedValues)

FinalFilteredItems(items, filters, uid, cols) ==
    SelectSeq(FilteredByCurrentUser(items, filters, uid),
              LAMBDA i : \A c \in DOMAIN filters : PassesFilter(i, c, filters[c], cols))

\* ---- the sort

\* A numbers cell without its sign.
\* x || 0 of a number x.
OrZero(x) == IF x.nan \/ x.n = 0 THEN 0 ELSE x.n

\* parseFloat(value) || 0
NumberOf(i, c) ==
    OrZero(ParseFloat(IF HasCell(i, c) THEN Catalogue[i][c].text ELSE << >>))

\* columnValue && columnValue.text ? new Date(columnValue.text) : new Date(0)
DateOf(i, c) ==
    IF HasCell(i, c) /\ Truthy(Catalogue[i][c].text)
    THEN DateGetTime(Catalogue[i][c].text)
    ELSE Num(0)

\* The comparator's result for rows a and b. Sorting is offered on the date
\* and numbers columns here.
\* The columns whose header offers a sort here, and the states it passes.
SortColumns == {"dt", "nm"}
SortStates == {"asc", "desc", "none"}

\* valueA and valueB: what the comparator derives from a row, per column.
SortValues ==
    [c \in SortColumns |->
        [i \in ItemIds |->
            IF allBoardColumns[c] = "date" THEN DateOf(i, c) ELSE Num(NumberOf(i, c))]]

Comparison(a, b, c) ==
    CASE allBoardColumns[c] = "date" -> Minus(SortValues[c][a], SortValues[c][b])
      [] allBoardColumns[c] = "numbers" -> Minus(SortValues[c][a], SortValues[c][b])

\* A comparator that never negates.
DirectedAscending(comparison, sortOrder) == comparison

\* return sortOrder === 'asc' ? comparison : -comparison
Directed(comparison, sortOrder) ==
    IF sortOrder = "asc" THEN comparison ELSE Negate(comparison)

Comparator(a, b, c, sortOrder) == Directed(Comparison(a, b, c), sortOrder)

\* What Array.prototype.sort takes a comparator's result to say: NaN is 0.
NaNAsZero(v) == IF v.nan THEN 0 ELSE v.n

SortCompare(a, b, c, sortOrder) == NaNAsZero(Comparator(a, b, c, sortOrder))

\* cf, a table of comparator results over the rows S, is consistent.
IsConsistent(S, cf) ==
    /\ \A a \in S : cf[a, a] = 0
    /\ \A a, b \in S : (cf[a, b] = 0 => cf[b, a] = 0) /\ (cf[a, b] < 0 => cf[b, a] > 0)
    /\ \A a, b, d \in S :
          /\ (cf[a, b] = 0 /\ cf[b, d] = 0) => cf[a, d] = 0
          /\ (cf[a, b] < 0 /\ cf[b, d] < 0) => cf[a, d] < 0
          /\ (cf[a, b] > 0 /\ cf[b, d] > 0) => cf[a, d] > 0

\* The comparator is a consistent comparator for these rows.
ConsistentComparator(items, c, sortOrder) ==
    IsConsistent(Range(items),
                 [a \in Range(items), b \in Range(items) |->
                     SortCompare(a, b, c, sortOrder)])

RECURSIVE InsertRow(_, _, _, _)
InsertRow(x, sorted, c, sortOrder) ==
    IF sorted = << >>
    THEN <<x>>
    ELSE IF SortCompare(x, Head(sorted), c, sortOrder) < 0
         THEN <<x>> \o sorted
         ELSE <<Head(sorted)>> \o InsertRow(x, Tail(sorted), c, sortOrder)

RECURSIVE StableSort(_, _, _)
StableSort(items, c, sortOrder) ==
    IF items = << >>
    THEN << >>
    ELSE InsertRow(items[Len(items)],
                   StableSort(SubSeq(items, 1, Len(items) - 1), c, sortOrder),
                   c, sortOrder)

Orderings(items) ==
    {p \in [1 .. Len(items) -> Range(items)] : Range(p) = Range(items)}

\* [...finalFilteredItems].sort(comparator): the stable sort when the
\* comparator is consistent, and an order of the engine's choosing when not.
SortOutcomes(items, c, sortOrder) ==
    IF ConsistentComparator(items, c, sortOrder)
    THEN {StableSort(items, c, sortOrder)}
    ELSE Orderings(items)

\* The values useMemo can hold for these dependencies.
\* The rows after the filters, sorted by column sortColumnId where a sort applies.
SortedBy(finalFilteredItems, sortColumnId, sort, cols) ==
    IF sortColumnId \notin DOMAIN sort
    THEN {finalFilteredItems}
    ELSE IF ~Truthy(sort[sortColumnId])
         THEN {finalFilteredItems}
         ELSE IF ~InColumnsForTable(sortColumnId, cols)
              THEN {finalFilteredItems}
              ELSE SortOutcomes(finalFilteredItems, sortColumnId, sort[sortColumnId])

\* Object.keys(sorting)[0], "undefined" when sorting has no key.
FirstKey(sort) == IF DOMAIN sort = {} THEN "undefined" ELSE CHOOSE c \in DOMAIN sort : TRUE

\* The values useMemo can hold for these dependencies.
ViewOutcomes(items, filters, sort, uid, cols) ==
    IF items = << >>
    THEN {<< >>}
    ELSE SortedBy(FinalFilteredItems(items, filters, uid, cols), FirstKey(sort), sort, cols)

\* A render of TaskTable with these props and state.
Rendered(items, filters, sort, uid, cols) ==
    /\ tableItems' = items
    /\ activeFilters' = filters
    /\ sorting' = sort
    /\ currentUserId' = uid
    /\ columnIds' = cols
    /\ filteredAndSortedBoardItems' \in ViewOutcomes(items, filters, sort, uid, cols)
    /\ UNCHANGED <<execVars, appVars, settingsVars, userVars, editVars>>

\* The parent hands over a list with one more item, or the empty list.
ItemArrives(i) ==
    /\ Len(tableItems) < MaxItems
    /\ i \notin Range(tableItems)
    /\ Rendered(Append(tableItems, i), activeFilters, sorting, currentUserId, columnIds)

ItemsCleared ==
    /\ tableItems # << >>
    /\ Rendered(<< >>, activeFilters, sorting, currentUserId, columnIds)

ColumnIdsChange(cols) ==
    /\ cols # columnIds
    /\ Rendered(tableItems, activeFilters, sorting, currentUserId, cols)

FetchContextAndUserId ==
    /\ currentUserId = "null"
    /\ Rendered(tableItems, activeFilters, sorting, HostUserId, columnIds)

OnSort(columnId, sortState) ==
    Rendered(tableItems, activeFilters, [c \in {columnId} |-> sortState],
             currentUserId, columnIds)

\* The filter dialog's checkbox and the "current user" button pass
\* isChecked = the value is not selected now.
HandleFilterChange(columnId, value) ==
    LET currentColumnFilters ==
            IF columnId \in DOMAIN activeFilters THEN activeFilters[columnId] ELSE << >>
        isChecked == value \notin Range(currentColumnFilters)
        newList == IF isChecked
                   THEN Append(currentColumnFilters, value)
                   ELSE SelectSeq(currentColumnFilters, LAMBDA v : v # value)
    IN  Rendered(tableItems,
                 [c \in DOMAIN activeFilters \cup {columnId} |->
                     IF c = columnId THEN newList ELSE activeFilters[c]],
                 sorting, currentUserId, columnIds)

HandleClearFilter(columnId) ==
    /\ columnId \in DOMAIN activeFilters
    /\ Rendered(tableItems,
                [c \in DOMAIN activeFilters \ {columnId} |-> activeFilters[c]],
                sorting, currentUserId, columnIds)

\* The values the filter dialogs and the button offer.
FilterValues ==
    [st |-> {"Done", "No status"}, pp |-> {"u1", "No user"},
     current_user_filter |-> {"true"}]

\* The table with its filters, never sorted.
FilterNext ==
    \/ \E i \in ItemIds : ItemArrives(i)
    \/ ItemsCleared
    \/ \E cols \in ColumnIdChoices : ColumnIdsChange(cols)
    \/ FetchContextAndUserId
    \/ \E c \in DOMAIN FilterValues : \E v \in FilterValues[c] : HandleFilterChange(c, v)
    \/ \E c \in {"st", "pp"} : HandleClearFilter(c)

FilterSpec == Init /\ [][FilterNext]_vars

\* The items the sorted table is given.
SortItemIds == {"i1", "i2", "i3", "i4"}

\* The table with its sort and the "current user" button, no column filter.
SortNext ==
    \/ \E i \in SortItemIds : ItemArrives(i)
    \/ ItemsCleared
    \/ \E cols \in ColumnIdChoices : ColumnIdsChange(cols)
    \/ FetchContextAndUserId
    \/ \E c \in SortColumns, s \in SortStates : OnSort(c, s)
    \/ HandleFilterChange("current_user_filter", "true")

SortSpec == Init /\ [][SortNext]_vars

----------------------------------------------------------------------------
(* UsersSpec: TaskTable's user cache, fetchAndCacheUser and the effect     *)
(* that prefetches the users the items name.                               *)

\* Most GET_USER_DETAILS_QUERY calls one behaviour issues.
MaxUserCalls == 4

UserIds == {"u1", "u2"}

RECURSIVE Flatten(_)
Flatten(seqs) == IF seqs = << >> THEN << >> ELSE Head(seqs) \o Flatten(Tail(seqs))

\* The person ids of one item's cells, in the order the effect visits them.
PersonIdsOf(i) ==
    IF HasCell(i, "pp")
    THEN [k \in 1 .. Len(Persons(Catalogue[i]["pp"].value)) |->
             Persons(Catalogue[i]["pp"].value)[k].id]
    ELSE << >>

\* The fetchAndCacheUser calls one run of the prefetch effect makes that
\* reach the network: one per mention of a user the cache of this render
\* does not hold.
PrefetchCalls(items, cached) ==
    SelectSeq(Flatten([k \in 1 .. Len(items) |-> PersonIdsOf(items[k])]),
              LAMBDA id : id \notin DOMAIN cached)

Count(seq, x) == Cardinality({k \in 1 .. Len(seq) : seq[k] = x})

\* A render with these items and this cache, and the prefetch effect after
\* it; `left` are the calls still in flight from before.
UsersRendered(items, cached, left) ==
    /\ Len(left) + Len(PrefetchCalls(items, cached)) <= MaxUserCalls
    /\ \A u \in UserIds :
          userCallsIssued[u] + Count(PrefetchCalls(items, cached), u) <= MaxUserCalls
    /\ tableItems' = items
    /\ cachedUsers' = cached
    /\ userCalls' = left \o PrefetchCalls(items, cached)
    /\ userCallsIssued' =
          [u \in UserIds |-> userCallsIssued[u] + Count(PrefetchCalls(items, cached), u)]
    /\ filteredAndSortedBoardItems'
          \in ViewOutcomes(items, activeFilters, sorting, currentUserId, columnIds)
    /\ UNCHANGED <<execVars, appVars, settingsVars, tableVars, columnIds, currentUserId>>
    /\ UNCHANGED editVars

\* The parent hands over a list with one more item.
BoardItemsGrow(i) ==
    /\ Len(tableItems) < MaxItems
    /\ i \notin Range(tableItems)
    /\ UsersRendered(Append(tableItems, i), cachedUsers, userCalls)

BoardItemsCleared ==
    /\ tableItems # << >>
    /\ UsersRendered(<< >>, cachedUsers, userCalls)

\* setCachedUsers(prev => ({ ...prev, [userId]: user }))
SetCachedUser(prev, userId, user) ==
    [u \in DOMAIN prev \cup {userId} |-> IF u = userId THEN user ELSE prev[u]]

\* Call k returns a user: the cache takes it.
UserCallResolves(k) ==
    /\ k \in 1 .. Len(userCalls)
    /\ UsersRendered(tableItems, SetCachedUser(cachedUsers, userCalls[k], "user"),
                     RemoveAt(userCalls, k))

\* Call k returns no user, or throws: the cache takes the 'Unknown' stand-in.
UserCallFails(k) ==
    /\ k \in 1 .. Len(userCalls)
    /\ UsersRendered(tableItems, SetCachedUser(cachedUsers, userCalls[k], "Unknown"),
                     RemoveAt(userCalls, k))

UsersNext ==
    \/ \E i \in ItemIds : BoardItemsGrow(i)
    \/ BoardItemsCleared
    \/ \E k \in 1 .. MaxUserCalls : UserCallResolves(k)
    \/ \E k \in 1 .. MaxUserCalls : UserCallFails(k)

UsersSpec == Init /\ [][UsersNext]_vars

----------------------------------------------------------------------------
(* MountSpec: TaskTable inside App. App renders TaskTable only while no    *)
(* selection-triggered load is running and there are items to show, so     *)
(* TaskTable's state lasts from one mount to the next unmount.             *)

\* The column values of each board's item.
CatalogueItem == [b1 |-> "i1", b2 |-> "i4"]

\* The boardItems prop (App.jsx line 530) as TaskTable reads its cells.
TableItems(items) == [k \in 1 .. Len(items) |-> CatalogueItem[items[k].boardId]]

\* React renders the mounted TaskTable with App's current boardItems and
\* runs the prefetch effect.
TaskTableRenders ==
    /\ TableMounted
    /\ tableItems # TableItems(boardItems)
    /\ UsersRendered(TableItems(boardItems), cachedUsers, userCalls)

\* The user picks a value in a column's filter dialog.
FilterPicked(columnId, value) ==
    /\ TableMounted
    /\ HandleFilterChange(columnId, value)

\* A user lookup of the mounted TaskTable returns the user.
UserLookupReturns(k) ==
    /\ TableMounted
    /\ UserCallResolves(k)

MountNext ==
    \/ \E selB \in StoredBoardSelections, selC \in StoredColumnSelections :
          SettingsLoaded(selB, selC)
    \/ \E b \in Boards : BoardToggle(b)
    \/ \E c \in Cols : ColumnToggle(c)
    \/ \E r \in 1 .. MaxFetches : ColumnsArrive(r)
    \/ \E r \in 1 .. MaxFetches : ItemsArrive(r)
    \/ TaskTableRenders
    \/ \E c \in Cols : FilterPicked(c, "Done")
    \/ \E k \in 1 .. MaxUserCalls : UserLookupReturns(k)

MountSpec == Init /\ [][MountNext]_vars

----------------------------------------------------------------------------
(* EditSpec: TaskTable's item name editor: handleDoubleClick,              *)
(* handleSaveEdit, handleKeyDown and the input of lines 668-686.           *)

\* Most rename mutations in flight at once, and most sent in one edit.
MaxRenames == 2

\* The items whose name cell is on screen, and the name they show.
EditItems == {"i1", "i2"}
currentItemName == "Task"

\* What the user may type into the name input.
TypedNames == {"Plan", "Plan B", "Task", "  "}

editFrame == <<execVars, appVars, settingsVars, tableVars, viewVars, userVars>>

\* handleDoubleClick, lines 196-199.
HandleDoubleClick(itemId, currentName) ==
    /\ editingItemId # itemId
    /\ editingItemId' = itemId
    /\ editedItemName' = currentName
    /\ renamesSent' = 0
    /\ UNCHANGED <<renameCalls, editFrame>>

\* The input's onChange, line 673.
OnChange(value) ==
    /\ editingItemId # "null"
    /\ editedItemName # value
    /\ editedItemName' = value
    /\ UNCHANGED <<editingItemId, renameCalls, renamesSent, editFrame>>

\* handleSaveEdit, lines 201-205 and 215-216: up to the awaited mutation
\* when the name changed, to the end when it did not.
HandleSaveEdit(itemId, currentName) ==
    /\ editingItemId = itemId
    /\ IF Trim(editedItemName) # "" /\ Trim(editedItemName) # currentName
       THEN /\ renameCalls < MaxRenames
            /\ renamesSent < MaxRenames
            /\ renameCalls' = renameCalls + 1
            /\ renamesSent' = renamesSent + 1
            /\ UNCHANGED <<editingItemId, editedItemName>>
       ELSE /\ editingItemId' = "null"
            /\ editedItemName' = ""
            /\ UNCHANGED <<renameCalls, renamesSent>>
    /\ UNCHANGED editFrame

\* handleKeyDown, lines 219-227, on the input of the item being edited.
HandleKeyDown(key, itemId, currentName) ==
    IF key = "Enter"
    THEN HandleSaveEdit(itemId, currentName)
    ELSE /\ key = "Escape"
         /\ editingItemId = itemId
         /\ editingItemId' = "null"
         /\ editedItemName' = ""
         /\ UNCHANGED <<renameCalls, renamesSent, editFrame>>

\* The input's onBlur, line 674.
OnBlur(itemId) == HandleSaveEdit(itemId, currentItemName)

\* The save button's onClick, line 680.
OnSaveClick(itemId) == HandleSaveEdit(itemId, currentItemName)

\* The awaited mutation returned (resolved: onItemUpdated follows; rejected:
\* alert): handleSaveEdit goes on to lines 215-216.
RenameReturns ==
    /\ renameCalls > 0
    /\ renameCalls' = renameCalls - 1
    /\ editingItemId' = "null"
    /\ editedItemName' = ""
    /\ UNCHANGED <<renamesSent, editFrame>>

EditNext ==
    \/ \E i \in EditItems : HandleDoubleClick(i, currentItemName)
    \/ \E v \in TypedNames : OnChange(v)
    \/ \E i \in EditItems, key \in {"Enter", "Escape"} :
          HandleKeyDown(key, i, currentItemName)
    \/ \E i \in EditItems : OnBlur(i)
    \/ \E i \in EditItems : OnSaveClick(i)
    \/ RenameReturns

EditSpec == Init /\ [][EditNext]_vars

----------------------------------------------------------------------------
(* The retry layer's claims, under ExecSpec.                               *)

\* The message a caller would read off what an attempt reported.
ErrMsg(e) == IF e.chan = "errors" THEN JoinMessages(e.list) ELSE e.msg

\* The specification's classes of error (section 4.1), whatever the channel.
IndicatesRateLimit(e) ==
    Includes(ErrMsg(e), RateLimitPassed) \/ Includes(ErrMsg(e), RateLimitExceeded)

IndicatesTransient(e) ==
    \/ IndicatesRateLimit(e)
    \/ Includes(ErrMsg(e), ConcurrencyLimit)
    \/ Includes(ErrMsg(e), GraphqlValidation)
    \/ e.resp = "FIELD_LIMIT_EXCEEDED"
    \/ e.resp = "429"

\* C1: a call through queryMonday whose every attempt reported the same
\* rate-limit error has made exactly retries + 1 = 4 attempts when it rejects
\* (wrapped in retry() or not), and one whose every attempt reported the same
\* non-transient error has made exactly one.
C1_RetryBudget ==
    (ePc = "rejected" /\ UsesQueryMonday(site) /\ uniform) =>
        /\ IndicatesRateLimit(lastErr) => attempts = QueryRetries + 1
        /\ ~IndicatesTransient(lastErr) => attempts = 1

\* C2: at the six call sites an error is retried iff it is transient: a retry
\* is only ever scheduled for a transient error, and no transient error is
\* surfaced by the very first attempt.
C2_RetriedIffTransient ==
    UsesQueryMonday(site) =>
        /\ ePc \in {"backoffQ", "backoffR"} => IndicatesTransient(lastErr)
        /\ (ePc = "rejected" /\ attempts = 1) => ~IndicatesTransient(lastErr)

\* C3: an error list in an HTTP-success response is rejected like a transport
\* error and classified alike: no call takes such a response for an (empty)
\* result, and no call retries a message arriving one way and then, with
\* budget left, rejects the same message arriving the other way.
C3_ErrorListLikeTransport ==
    /\ result # "empty"
    /\ ~ /\ ePc = "rejected"
         /\ ~exhausted
         /\ prevErr # NoErr
         /\ prevErr.chan # lastErr.chan
         /\ ErrMsg(prevErr) = ErrMsg(lastErr)
         /\ prevErr.resp = "none"
         /\ lastErr.resp = "none"

\* C4 as stated: when the budget is exhausted on a transient error the caller
\* receives an error tagged ExhaustedRetries.
C4_TaggedExhaustedRetries ==
    (ePc = "rejected" /\ exhausted) => thrown.tag = "ExhaustedRetries"

\* C4 as amended: whenever a call rejects, exhausted or not, the caller
\* receives the error of the last attempt (its message and its response)
\* with no tag added.
C4_LastErrorUntagged ==
    ePc = "rejected" =>
        /\ thrown.msg = ErrMsg(lastErr)
        /\ thrown.resp = lastErr.resp
        /\ thrown.tag = "none"

\* C4 witness: a rejection after the budget ran out on a transient error.
C4_Witness ==
    /\ ePc = "rejected"
    /\ exhausted
    /\ attempts > QueryRetries + 1
    /\ IndicatesTransient(lastErr)

RECURSIVE Pow2(_)
Pow2(n) == IF n = 0 THEN 1 ELSE 2 * Pow2(n - 1)

\* C29: a call through retry(() => queryMonday(q)) makes at most
\* (5+1) x (3+1) = 24 attempts; a failure of the 24th ends the call; the
\* k-th wait of one queryMonday invocation is 500 ms doubled k-1 times
\* (500, 1000, 2000) and the k-th wait of retry is 2000 ms doubled k-1
\* times (2000, 4000, 8000, 16000, 32000); between attempts the call is
\* either waiting for one of these timers or has resolved or rejected.
C29_BoundedAttemptsDoubledWaits ==
    UsesRetry(site) =>
        /\ attempts <= (RetryRetries + 1) * (QueryRetries + 1)
        /\ ePc \in {"attempt", "backoffQ", "backoffR", "resolved", "rejected"}
        /\ ePc = "backoffQ" =>
              /\ wait = QueryDelay * Pow2(QueryRetries - inner - 1)
              /\ wait \in {500, 1000, 2000}
        /\ ePc = "backoffR" =>
              /\ wait = RetryDelay * Pow2(RetryRetries - outer - 1)
              /\ wait \in {2000, 4000, 8000, 16000, 32000}
        /\ (ePc = "attempt" /\ attempts = 24) => (inner = 0 /\ outer = 0)

\* C29 witness: the 24th attempt of a wrapped call failed and the call
\* rejected, both budgets spent.
C29_Witness ==
    /\ UsesRetry(site)
    /\ attempts = 24
    /\ ePc = "rejected"
    /\ inner = 0 /\ outer = 0

----------------------------------------------------------------------------
(* The settings store's claims, under SettingsSpec.                        *)

\* The step just taken ended a load whose getItem returned a string that is
\* not JSON.
CorruptedLoadEnded == event.type = "loadEnded" /\ loadRead = "notJson"

DefaultViewLoaded ==
    /\ selectedBoardIds = << >>
    /\ selectedColumnIds = << >>
    /\ isSidebarOpen = FALSE

\* C11 as stated: a load that finds a non-JSON value ends with the default
\* view state, the entry deleted and the app error unset.
C11_CorruptedDeletedNoError ==
    CorruptedLoadEnded =>
        /\ DefaultViewLoaded
        /\ stored = Absent
        /\ appError = "null"

\* C11 as amended: a load that finds a non-JSON value ends with the default
\* view state; with removeItem available and resolving, the entry is deleted
\* and the app error unset; with removeItem unavailable the entry stays and
\* the app error is unset; with removeItem rejecting the app error is set.
C11_CorruptedRecoveredIfRemovable ==
    CorruptedLoadEnded =>
        /\ DefaultViewLoaded
        /\ removeItemApi = "resolves" => stored = Absent /\ appError = "null"
        /\ removeItemApi = "unavailable" => stored = NotJson /\ appError = "null"
        /\ removeItemApi = "rejects" => appError = "set"

\* C11 witness: such a load has just ended, the removal having resolved.
C11_Witness == CorruptedLoadEnded /\ removeItemApi = "resolves" /\ stored = Absent

\* C12: a step issues a write only if the initial load is complete after it,
\* and the value is the selection and panel state after the step; once the
\* load is complete, every step that changes the board selection, the column
\* selection or the panel visibility issues a write.
C12_WritesOnlyAfterLoad ==
    [][/\ lastWrite' # NoWrite =>
             /\ sPc' = "done" /\ ~isAppLoading'
             /\ lastWrite' \in pending'
             /\ lastWrite'.text =
                   SettingsToSave(selectedBoardIds', selectedColumnIds', isSidebarOpen')
       /\ (/\ sPc = "done" /\ sPc' = "done"
           /\ \/ selectedBoardIds' # selectedBoardIds
              \/ selectedColumnIds' # selectedColumnIds
              \/ isSidebarOpen' # isSidebarOpen) => lastWrite' # NoWrite]_vars

\* C12 witness: a change of the board selection has just been written.
C12_Witness ==
    /\ lastWrite # NoWrite
    /\ event.type = "none"
    /\ lastWrite.text = SettingsToSave(<<"b1", "b2">>, selectedColumnIds, isSidebarOpen)
    /\ selectedBoardIds = <<"b1", "b2">>

\* The step just taken ended a load that read a value this app had saved.
SavedValueLoaded ==
    /\ event.type = "loadEnded"
    /\ loadRead = "json"
    /\ stored # LegacyJson

\* C13 as stated: the loaded view state equals the saved one in all of
\* selectedBoardIds, selectedColumnIds, activeFilters, sort and panelOpen.
C13_RoundTripWholeViewState ==
    SavedValueLoaded =>
        ViewState(selectedBoardIds, selectedColumnIds, activeFilters, sorting,
                  isSidebarOpen) = stored.from

\* C13 as amended: the loaded view state equals the saved one in
\* selectedBoardIds, selectedColumnIds and panelOpen; activeFilters and sort
\* are not saved and are empty after the load.
C13_RoundTripPersistedFields ==
    SavedValueLoaded =>
        /\ selectedBoardIds = stored.from.selectedBoardIds
        /\ selectedColumnIds = stored.from.selectedColumnIds
        /\ isSidebarOpen = stored.from.panelOpen
        /\ activeFilters = EmptyMap
        /\ sorting = EmptyMap

\* C13 witness: a load has just read a value saved with boards and columns
\* selected, the panel open, a filter and a sort set.
C13_Witness ==
    /\ SavedValueLoaded
    /\ stored.from.selectedBoardIds # << >>
    /\ stored.from.selectedColumnIds # << >>
    /\ stored.from.panelOpen
    /\ stored.from.activeFilters # EmptyMap
    /\ stored.from.sort # EmptyMap

\* The step just taken ended a load whose getItem rejected.
RejectedLoadEnded == event.type = "loadEnded" /\ loadRead = "rejected"

DefaultSettings == SettingsToSave(<< >>, << >>, FALSE)

\* C26 as stated: once the read of the initial load has rejected, no step
\* removes the stored entry or overwrites it with the default values.
C26_RejectedReadLeavesEntry ==
    [][(loadRead' = "rejected" /\ stored # Absent) =>
          /\ stored' # Absent
          /\ ~(stored' # stored /\ stored'.kind = "json"
                /\ stored'.text = DefaultSettings)]_vars

\* C26 as amended: a load whose read rejected ends with the app error set,
\* the entry deleted if removeItem is available and resolves, and the
\* default values on their way to storage.
C26_RejectedReadClearsEntry ==
    RejectedLoadEnded =>
        /\ appError = "set"
        /\ DefaultViewLoaded
        /\ removeItemApi = "resolves" => stored = Absent
        /\ lastWrite \in pending
        /\ lastWrite.text = DefaultSettings

\* C26 witness: such a load has just ended at the second mount, the removal
\* having resolved, with the write of the defaults pending.
C26_Witness ==
    /\ RejectedLoadEnded
    /\ mounts = 2
    /\ removeItemApi = "resolves"
    /\ stored = Absent
    /\ lastWrite \in pending

----------------------------------------------------------------------------
(* Overlapping settings writes, under WritesSpec.                          *)

\* C27: once the load has ended and no write is in flight, storage holds
\* the current board selection, column selection and panel visibility.
C27_StoredIsCurrent ==
    (sPc = "done" /\ pending = {}) =>
        /\ stored.kind = "json"
        /\ stored.text = SettingsToSave(selectedBoardIds, selectedColumnIds,
                                        isSidebarOpen)

----------------------------------------------------------------------------
(* The aggregation fetcher's and the edit handlers' claims, under Spec.    *)

\* The step just taken was a fetchBoardData ending in its catch after the
\* item listings of at least one board had succeeded.
FailedAfterPartialFetch == event.type = "fetchFailed" /\ event.discarded >= 1

\* C5 as stated: when an item listing fails after an earlier board's listing
\* succeeded, the refresh rejects to its caller and the displayed item list
\* is what it was.
C5_RefreshRejects ==
    [][FailedAfterPartialFetch' =>
          /\ event'.promise = "rejected"
          /\ boardItems' = boardItems]_vars

\* C5 as amended: when an item listing fails after an earlier board's listing
\* succeeded, the refresh's promise resolves, an error state is set, and the
\* displayed item list is what it was (the items fetched so far are dropped).
C5_RefreshResolvesItemsKept ==
    [][FailedAfterPartialFetch' =>
          /\ event'.promise = "resolved"
          /\ itemsError' = "set" \/ columnsError' = "set"
          /\ boardItems' = boardItems]_vars

\* C5 witness: a refresh over two boards has just failed on the second
\* board's listing while items were on display.
C5_Witness ==
    /\ FailedAfterPartialFetch
    /\ Len(boardItems) > 0

\* C6: the column map and the item list are replaced together and only when
\* a refresh completes successfully: a step that changes either of them is
\* the successful completion of a fetchBoardData invocation.
C6_ItemsAndColumnsTogether ==
    [][(allBoardsData' # allBoardsData \/ boardItems' # boardItems) =>
          event'.type = "fetchOk"]_vars

\* C7: a timer tick starts a refresh only when no refresh is in flight.
C7_TimerNeverOverlaps ==
    [][(/\ Len(refreshes') = Len(refreshes) + 1
        /\ refreshes'[Len(refreshes')].trigger = "timer") =>
          Len(refreshes) = 0]_vars

\* The calls one fetchBoardData over selB makes, in order.
ExpectedCalls(selB) ==
    [k \in 1 .. 2 + 2 * Len(selB) |->
        IF k = 1 THEN <<"issue", "columns">>
        ELSE IF k = 2 THEN <<"done", "columns">>
        ELSE IF k % 2 = 1 THEN <<"issue", selB[(k - 1) \div 2]>>
        ELSE <<"done", selB[(k - 2) \div 2]>>]

IsPrefix(s, t) == Len(s) <= Len(t) /\ \A i \in 1 .. Len(s) : s[i] = t[i]

\* The column listing ends before any item listing is issued, and the item
\* listings are issued one after the other in selection order.
CallsInOrder == \A r \in InFlight : IsPrefix(refreshes[r].log, ExpectedCalls(refreshes[r].selB))

ItemsHeld == Range(boardItems) \cup UNION {Range(refreshes[r].fetched) : r \in InFlight}

\* C8 as stated: calls in order, and every item tagged with the id and the
\* display name of the board whose listing returned it.
C8_TaggedWithDisplayName ==
    /\ CallsInOrder
    /\ \A item \in ItemsHeld :
          /\ item.boardId = item.board
          /\ item.boardName = BoardName[item.board]

\* C8 as amended: calls in order, and every item tagged with the id of the
\* board whose listing returned it, and with that board's display name when
\* the column listing included the board, with "Board <id>" when it did not.
C8_TaggedWithNameOrFallback ==
    /\ CallsInOrder
    /\ \A item \in ItemsHeld :
          /\ item.boardId = item.board
          /\ item.board \in listed => item.boardName = BoardName[item.board]
          /\ item.board \notin listed => item.boardName = <<"Board", item.board>>

\* C8 witness: a refresh over two boards, one of them missing from the column
\* listing, has completed and its items are on display.
C8_Witness ==
    /\ Len(boardItems) = 2
    /\ boardItems[1].boardId # boardItems[2].boardId
    /\ \E i \in 1 .. 2 : boardItems[i].boardName = <<"Board", boardItems[i].boardId>>
    /\ \E i \in 1 .. 2 : boardItems[i].boardName = BoardName[boardItems[i].boardId]

\* The refreshes in flight that a mutation's success started.
EditRefreshes(rs) == {i \in 1 .. Len(rs) : rs[i].trigger = "edit"}

\* C9 as stated: from a mutation's success to the completion of the refresh
\* it started the displayed item list does not change: no step changes it
\* while such a refresh is in flight and stays in flight.
C9_UnchangedUntilRefreshCompletes ==
    [][(/\ EditRefreshes(refreshes) # {}
        /\ Cardinality(EditRefreshes(refreshes')) >= Cardinality(EditRefreshes(refreshes))) =>
          boardItems' = boardItems]_vars

\* C9 as amended: the step in which a mutation succeeds leaves the displayed
\* item list as it is and starts a refresh, and the list only ever changes by
\* the replacement a fetchBoardData invocation makes (the one the edit
\* started or any other).
C9_RefetchedNeverPatched ==
    [][/\ srvVer' # srvVer =>
             /\ boardItems' = boardItems
             /\ Len(refreshes') = Len(refreshes) + 1
             /\ refreshes'[Len(refreshes')].trigger = "edit"
             /\ refreshes'[Len(refreshes')].pc = "cols"
       /\ boardItems' # boardItems => event'.type = "fetchOk"]_vars

\* C9 witness: a mutation has just succeeded while items were on display, and
\* the refresh it started is in flight.
C9_Witness ==
    /\ event.type = "editOk"
    /\ srvVer > 0
    /\ Len(boardItems) > 0
    /\ Len(refreshes) > 0
    /\ refreshes[Len(refreshes)].trigger = "edit"

\* C10: the step in which a mutation fails notifies the user, leaves the
\* displayed item list and the column map as they are, and starts no refresh.
C10_FailureOnlyNotifies ==
    [][(edit.pc = "sent" /\ edit'.pc = "none" /\ srvVer' = srvVer) =>
          /\ event'.type = "alert"
          /\ boardItems' = boardItems
          /\ allBoardsData' = allBoardsData
          /\ refreshes' = refreshes
          /\ isPolling' = isPolling]_vars

\* C10 witness: a mutation has just failed while items were on display.
C10_Witness ==
    /\ event.type = "alert"
    /\ edit = NoEdit
    /\ srvVer = 0
    /\ Len(boardItems) > 0

----------------------------------------------------------------------------
(* The view's claims, under FilterSpec and SortSpec.                       *)

\* The filter of column c is active: the column is displayed and at least
\* one value is selected.
ActiveFilter(c) ==
    /\ c \in DOMAIN activeFilters
    /\ activeFilters[c] # << >>
    /\ InColumnsForTable(c, columnIds)

\* The status label of each catalogue item, as the claim normalizes it.
StatusLabel ==
    [i1 |-> "Done", i2 |-> "No status", i3 |-> "No status", i4 |-> "No status",
     i5 |-> "No status"]

\* C14: with no other filter in play, an item is in the output iff its
\* normalized status label is in the selected label set of the active status
\* filter (every item is, when no status filter is active).
C14_StatusFilterDecides ==
    (~IsFilterByCurrentUserActive(activeFilters) /\ ~ActiveFilter("pp")) =>
        /\ Range(filteredAndSortedBoardItems) \subseteq Range(tableItems)
        /\ \A i \in Range(tableItems) :
              i \in Range(filteredAndSortedBoardItems)
                  <=> (ActiveFilter("st") => StatusLabel[i] \in Range(activeFilters["st"]))

\* A filter selecting "No status" keeps the item with status text "" and
\* drops the item with status "Done".
C14_Witness ==
    /\ ActiveFilter("st")
    /\ activeFilters["st"] = <<"No status">>
    /\ ~IsFilterByCurrentUserActive(activeFilters)
    /\ ~ActiveFilter("pp")
    /\ "i1" \in Range(tableItems)
    /\ "i1" \notin Range(filteredAndSortedBoardItems)
    /\ "i2" \in Range(filteredAndSortedBoardItems)

\* The persons assigned to each catalogue item in the people column. Item
\* i5, whose cell value does not parse, is left out of the claims below.
AssignedPersons ==
    [i1 |-> {"u1"}, i2 |-> {}, i3 |-> {}, i4 |-> {"u1", "u2"}, i5 |-> {}]

\* C15: with only a people filter in play, an item passes iff its assigned
\* persons meet the selected ids, or it has no assigned person and "No user"
\* is selected.
C15_PersonFilterDecides ==
    (/\ ~IsFilterByCurrentUserActive(activeFilters)
     /\ ~ActiveFilter("st")
     /\ ActiveFilter("pp")) =>
        \A i \in Range(tableItems) \ {"i5"} :
            i \in Range(filteredAndSortedBoardItems)
                <=> \/ AssignedPersons[i] \cap Range(activeFilters["pp"]) # {}
                    \/ /\ AssignedPersons[i] = {}
                       /\ "No user" \in Range(activeFilters["pp"])

\* C16: while the "current user only" filter is active, every row of the
\* output has the host's user among its assigned persons.
C16_OnlyCurrentUsersItems ==
    IsFilterByCurrentUserActive(activeFilters) =>
        \A i \in Range(filteredAndSortedBoardItems) : HostUserId \in AssignedPersons[i]

\* No sort is active: no column was sorted, or the sorted column is back to none.
NoSortActive == \A c \in DOMAIN sorting : sorting[c] = "none"

PositionIn(seq, x) == CHOOSE k \in 1 .. Len(seq) : seq[k] = x

\* The rows are rows of the input, in the order of the input.
InInputOrder ==
    /\ Range(filteredAndSortedBoardItems) \subseteq Range(tableItems)
    /\ \A k, l \in 1 .. Len(filteredAndSortedBoardItems) :
          k < l => PositionIn(tableItems, filteredAndSortedBoardItems[k])
                     < PositionIn(tableItems, filteredAndSortedBoardItems[l])

\* C17: while no sort is active the output is in input order.
C17_UnsortedKeepsInputOrder == NoSortActive => InInputOrder

\* The catalogue items whose date text is a calendar date.
ParseableDate == {"i1", "i3", "i5"}

\* The table is sorted by column c in direction s, and the column is displayed.
SortedBySortState(c, s) ==
    /\ DOMAIN sorting = {c}
    /\ sorting[c] = s
    /\ InColumnsForTable(c, columnIds)

\* C18: in an ascending date sort no row with a calendar date comes before a
\* row whose date is absent or unparseable, and the comparator gives a number
\* for every two different rows.
C18_DatelessLowest ==
    SortedBySortState("dt", "asc") =>
        /\ \A k, l \in 1 .. Len(filteredAndSortedBoardItems) :
              k < l => ~(/\ filteredAndSortedBoardItems[k] \in ParseableDate
                         /\ filteredAndSortedBoardItems[l] \notin ParseableDate)
        /\ \A a, b \in Range(filteredAndSortedBoardItems) :
              a # b => ~Comparator(a, b, "dt", "asc").nan

\* The number each catalogue item's numbers cell stands for under the claim:
\* its numeric value, 0 when non-numeric or absent.
NumberValue == [i1 |-> 3, i2 |-> 0, i3 |-> 1, i4 |-> 0, i5 |-> -2]

\* C19: a numbers sort puts the rows in non-decreasing order of their numbers
\* when ascending and in non-increasing order when descending, keeping every
\* filtered row once; [3, "abc", 1] ascending is ["abc", 1, 3].
C19_NumbersSortByValue ==
    /\ \A s \in {"asc", "desc"} :
          SortedBySortState("nm", s) =>
              /\ Range(filteredAndSortedBoardItems) \subseteq Range(tableItems)
              /\ Len(filteredAndSortedBoardItems) = Cardinality(Range(filteredAndSortedBoardItems))
              /\ ~IsFilterByCurrentUserActive(activeFilters) =>
                     Range(filteredAndSortedBoardItems) = Range(tableItems)
              /\ \A k, l \in 1 .. Len(filteredAndSortedBoardItems) :
                    k < l =>
                        IF s = "asc"
                        THEN NumberValue[filteredAndSortedBoardItems[k]]
                               <= NumberValue[filteredAndSortedBoardItems[l]]
                        ELSE NumberValue[filteredAndSortedBoardItems[k]]
                               >= NumberValue[filteredAndSortedBoardItems[l]]
    /\ (/\ SortedBySortState("nm", "asc")
        /\ tableItems = <<"i1", "i2", "i3">>
        /\ ~IsFilterByCurrentUserActive(activeFilters)) =>
            filteredAndSortedBoardItems = <<"i2", "i3", "i1">>

\* The rows 3, "abc", 1 sorted ascending.
C19_Witness ==
    /\ SortedBySortState("nm", "asc")
    /\ tableItems = <<"i1", "i2", "i3">>
    /\ filteredAndSortedBoardItems = <<"i2", "i3", "i1">>

\* C20: for every user id at most one user-detail call is ever issued.
C20_OneCallPerUser == \A u \in UserIds : userCallsIssued[u] <= 1

----------------------------------------------------------------------------
(* Overlapping refreshes, under Spec.                                      *)

SelectionChanges ==
    \/ selectedBoardIds' # selectedBoardIds
    \/ selectedColumnIds' # selectedColumnIds

\* What a refresh over the selection selB, selC displays when every one of
\* its calls succeeds: the boards of the column map, and the boards the
\* items come from.
MapBoardsFor(selB) == Range(selB) \cap listed
ItemBoardsFor(selB, selC) == IF Len(selC) = 0 THEN {} ELSE Range(selB)

DisplayedItemBoards == {boardItems[i].boardId : i \in 1 .. Len(boardItems)}

\* The display is what a successful refresh over selB, selC leaves.
DisplayFetchedFor(selB, selC) ==
    /\ DOMAIN allBoardsData = MapBoardsFor(selB)
    /\ DisplayedItemBoards = ItemBoardsFor(selB, selC)

\* C21: a change of the selection cancels no refresh: every invocation of
\* fetchBoardData in flight before the change is in flight after it,
\* untouched, and may still write its response to the display.
C21_SelectionChangeCancelsNothing ==
    [][SelectionChanges =>
          /\ Len(refreshes') >= Len(refreshes)
          /\ \A r \in 1 .. Len(refreshes) : refreshes'[r] = refreshes[r]]_vars

\* C21: nothing is in flight, the last refresh to end succeeded and was
\* started for an older selection, and the display is the one fetched for
\* that older selection, not for the current one.
C21_Witness ==
    /\ refreshes = << >>
    /\ edit = NoEdit
    /\ event.type = "fetchOk"
    /\ columnsError = "null" /\ itemsError = "null"
    /\ Len(selectedBoardIds) > 0 /\ Len(selectedColumnIds) > 0
    /\ Len(boardItems) > 0
    /\ ~DisplayFetchedFor(selectedBoardIds, selectedColumnIds)
    /\ \E b \in Boards : DisplayFetchedFor(<<b>>, selectedColumnIds)

----------------------------------------------------------------------------
(* TaskTable's state across App's renders, under MountSpec.                *)

\* allAvailableColumnsForSelectedBoards has column c (App.jsx lines 366-378).
ColumnAvailable(c) ==
    \E k \in 1 .. Len(allAvailableColumnsForSelectedBoards) :
        allAvailableColumnsForSelectedBoards[k].id = c

\* Column c is a column of the table on screen: TaskTable is rendered and
\* columnsToDisplayInTable (lines 405-423) holds c.
ColumnDisplayed(c) ==
    /\ TableMounted
    /\ c \in Range(selectedColumnIds)
    /\ ColumnAvailable(c)

\* C22: when a column with a filter stops being displayed, its filter values
\* stay in the active filters, ready to apply when it is displayed again.
C22_FilterOutlivesHiddenColumn ==
    [][\A c \in DOMAIN activeFilters :
          (activeFilters[c] # << >> /\ ColumnDisplayed(c) /\ ~ColumnDisplayed(c)')
             => /\ c \in DOMAIN activeFilters'
                /\ activeFilters'[c] = activeFilters[c]]_vars

\* C24: an entry of the user cache, once made, is there unchanged after
\* every later step.
C24_CacheEntriesStay ==
    [][\A u \in DOMAIN cachedUsers :
          u \in DOMAIN cachedUsers' /\ cachedUsers'[u] = cachedUsers[u]]_vars

----------------------------------------------------------------------------
(* The loading flags, under Spec.                                          *)

SelectionFetchInFlight == \E r \in InFlight : refreshes[r].trigger = "selection"

\* C25: while a selection-triggered fetch is in flight, isLoadingColumns
\* and isLoadingItems are both true.
C25_LoadingWhileSelectionFetch ==
    SelectionFetchInFlight => (isLoadingColumns /\ isLoadingItems)

SelectionFetches == {r \in InFlight : refreshes[r].trigger = "selection"}

NothingLoading == ~isLoadingColumns /\ ~isLoadingItems /\ ~isPolling

\* C30: the step that ends a selection-triggered load, by success or by
\* failure, leaves isLoadingColumns, isLoadingItems and isPolling false; and
\* while such a load is in flight, a state follows in which none is in
\* flight and the three flags are false.
C30_LoadsEndNothingLoading ==
    /\ [][Cardinality(SelectionFetches') < Cardinality(SelectionFetches)
             => NothingLoading']_vars
    /\ SelectionFetchInFlight ~> (~SelectionFetchInFlight /\ NothingLoading)

\* C30 witness: the only fetch so far, started by the selection, has just
\* ended in failure and nothing is loading.
C30_Witness ==
    /\ fetches = 1
    /\ refreshes = << >>
    /\ event.type = "fetchFailed"
    /\ NothingLoading
    /\ Len(selectedBoardIds) > 0

----------------------------------------------------------------------------
(* The unified column list, under Spec.                                    *)

\* The selected boards whose fetched data define column id c, in selection
\* order.
DefiningBoards(c) ==
    SelectSeq(selectedBoardIds,
              LAMBDA b : /\ b \in DOMAIN allBoardsData
                         /\ \E k \in 1 .. Len(allBoardsData[b].columns) :
                               allBoardsData[b].columns[k].id = c)

DefinitionOn(b, c) ==
    LET cols == allBoardsData[b].columns
    IN  cols[CHOOSE k \in 1 .. Len(cols) : cols[k].id = c]

\* The unified list has one entry per column id defined, and the entry of c
\* is the definition of board pick(DefiningBoards(c)).
UnifiedKeeps(pick(_)) ==
    /\ \A c \in Cols :
          (DefiningBoards(c) # << >>) <=>
             (\E k \in 1 .. Len(allAvailableColumnsForSelectedBoards) :
                 allAvailableColumnsForSelectedBoards[k].id = c)
    /\ \A k \in 1 .. Len(allAvailableColumnsForSelectedBoards) :
          LET col == allAvailableColumnsForSelectedBoards[k]
          IN  /\ DefiningBoards(col.id) # << >>
              /\ col = DefinitionOn(pick(DefiningBoards(col.id)), col.id)
              /\ \A j \in 1 .. Len(allAvailableColumnsForSelectedBoards) :
                    allAvailableColumnsForSelectedBoards[j].id = col.id => j = k

LastOf(seq) == seq[Len(seq)]

\* C23 as stated: the unified column list keeps, for a column id that
\* several selected boards define, the definition of the board seen last
\* in selection order.
C23_LastSeenWins == UnifiedKeeps(LastOf)

\* C23: the unified column list keeps, for a column id that several
\* selected boards define, the definition of the board seen first in
\* selection order; every column id defined appears exactly once.
C23_FirstSeenWins == UnifiedKeeps(Head)

\* C23: two selected boards define c1 differently and the list is derived
\* from both.
C23_Witness ==
    /\ Len(DefiningBoards("c1")) = 2
    /\ DefinitionOn(selectedBoardIds[1], "c1") # DefinitionOn(selectedBoardIds[2], "c1")
    /\ Len(allAvailableColumnsForSelectedBoards) = 1
    /\ allAvailableColumnsForSelectedBoards[1].title = <<"c1 on", selectedBoardIds[1]>>

----------------------------------------------------------------------------
(* The item name editor, under EditSpec.                                   *)

====
